---- MODULE Spec2Model ----
(***************************************************************************)
(* A model of loopdown: the single-instance lock (flock_utils.py), the     *)
(* package resolution engine (package_processing_mixin.py), content        *)
(* processing (context.py) and server resolution (download_mixin.py,       *)
(* normalizers.py).  Each subsystem has its own specification; the         *)
(* variables of the other subsystems stay at their initial value.          *)
(***************************************************************************)
EXTENDS Integers, Sequences, FiniteSets, TLC

(***************************************************************************)
(* Bounds of the model.                                                    *)
(***************************************************************************)
NumInstances == 3
NumApps == 2
MaxRecs == 2
MaxId == 2
MaxMerge == 3
MaxIterRecs == 3
MaxIterId == 3
MaxVerLen == 4
MaxVerComp == 2
MaxFiles == 2
MaxSizeRecs == 2
MaxWarnPackages == 8
MaxHrMant == 8
MaxHrExp == 6
MaxCacheLen == 1
MaxCacheCalls == 3
MaxServers == 2
MaxRank == 1

VARIABLES
    \* ---- flock_utils.lock_execution / __main__ ----
    instPc,       \* position of every program instance
    instF,        \* f: the inode the instance holds open (0: none)
    instLocked,   \* the instance's open file description holds the flock
    instRaised,   \* AlreadyRunningError was raised in the instance
    instExit,     \* exit status of the instance (-1: still running)
    lockPath,     \* inode that /tmp/loopdown.lock names (0: no such file)
    inodeCount,   \* number of inodes created so far
    \* ---- package_processing_mixin: gathering the packages of the applications ----
    argsRequired, \* args.required (-r/--req)
    argsOptional, \* args.optional (-o/--opt)
    downloadMode, \* args.action == "download" (otherwise "deploy")
    apps,         \* per application: state of its metadata source and its raw records
    futures,      \* per application: the future of its _iter_app_packages call
    merged_by_id, \* the id-keyed dict of _gather_packages_concurrently (insertion ordered)
    gatherPc,     \* "running", "returned" or "raised"
    sorted_merged, \* the list _gather_packages_concurrently returns
    \* ---- _merge_packages_by_id applied group by group to one collection ----
    mergeInput,   \* the collection of packages
    mergeTaken,   \* the positions of the collection that were merged so far
    mergeCalls,   \* number of _merge_packages_by_id calls so far
    mergedDict,   \* the id-keyed dict the groups are merged into
    \* ---- context.process_content ----
    dryRun,       \* args.dry_run (-n/--dry-run)
    available,    \* disk_space_available() (bytes)
    procPc,       \* position of process_content
    procIdx,      \* idx of the for loop over packages
    logged,       \* number of "idx of total" lines logged
    has_space,    \* has_space of _has_space_available: "yes", "no" ("none": not computed)
    transfers,    \* the packages curl was started for, in order
    installs,     \* the packages the installer was invoked for, in order
    downloaded,   \* per package: _download returned True "yes", False "no" ("none": not called)
    files,        \* per package: state of its file in the working directory
    deleted,      \* the packages whose file process_content unlinked
    workdir,      \* state of args.destination: "absent", "exists" or "removed"
    procExit,     \* exit status of sys.exit in process_content (-1: none)
    \* ---- arg_helpers.CachingServer, download_mixin._resolve_server, _generate_url_and_dest ----
    argsMirror,   \* args.mirror_server
    cacheValue,   \* what the command line gives -c/--cache-server
    argsCache,    \* args.cache_server
    discovery,    \* what extract_cache_server() returns on this host
    server,       \* self.server
    serverPc,     \* "args", "parsed", "resolved" or "value_error"
    url,          \* the url _generate_url_and_dest made last
    urlPath,      \* the download_path of the package that url was made for
    \* ---- _iter_app_packages on the raw records of one application ----
    argsForce,    \* args.force (-f/--force)
    iterRecords,  \* the raw records of the application, in file order
    iterPc,       \* "start" or "done"
    iterResult,   \* what the call gave: raised, or the packages of by_id
    \* ---- package_utils.installed_version_satisfies_required_version ----
    verInstalled, \* installed.release
    verRequired,  \* required.release
    verPc,        \* "start" or "done"
    verResult,    \* what the call returned
    \* ---- AudioContentPackage.is_installed ----
    pkgVersion,   \* version of the package: declared or not, and its release tuple
    file_check,   \* the sentinel files the package lists
    hostFiles,    \* the sentinel files that exist on the host
    hostVersion,  \* release tuple of the version pkgutil reports for the package id
    installedPc,  \* "start" or "done"
    installedResult, \* what is_installed answered
    \* ---- sizes of the raw records: Size, BucketStats ----
    sizeRecords,  \* the raw records: DownloadSize, InstalledSize, IsMandatory
    sizePackages, \* the packages made from them
    sizePc,       \* "start", "normalized", "summed" or "type_error"
    sizeTotal,    \* total.down + total.inst
    \* ---- __main__: main(), signals ----
    mainPc,       \* "processing", "unwinding" or "exited"
    mainLock,     \* the instance lock is held
    mainSignal,   \* the signal that arrived, or "none"
    mainExit,     \* exit status of the process, -1 while it runs
    \* ---- legacy main(): the failures warning ----
    total_packages, \* len(packages)
    error_packages, \* packages whose status is not ok
    warnIdx,        \* position of the loop in packages
    warnPc,         \* "loop" or "done"
    warned,         \* "yes" when the warning was logged, "no" when not
    \* ---- bytes2hr ----
    hrInput,      \* the byte count, mant * bs^exp
    hrPc,         \* "start" or "done"
    hrResult,     \* the string returned: hundredths of the number, and the suffix
    \* ---- loopdown.py: fallback ----
    fbName,       \* fp.name
    fbStatus,     \* the status code of the feed
    fbRemote,     \* what the transfer writes to the temporary file
    fbTmp,        \* the temporary file: "absent", or the kind of its content
    fbFetched,    \* the transfer wrote the temporary file
    fbPc,         \* "start", "returned", "exited" (sys.exit) or "raised"
    fbData,       \* what fallback returned: "data" or "none"
    \* ---- merging a dict with its own packages ----
    remergePc,    \* "start" or "done"
    remergeBefore, \* the dict before the second merge
    \* ---- the cache of _generate_bucket_stats_cache ----
    lruCache,     \* the entries [key, value], least recently used first
    cacheArg,     \* the packages of the last call
    cacheResult,  \* what the last call returned
    cacheCalls,   \* number of calls made
    \* ---- extract_cache_server ----
    locData,        \* what asset_cache_locator() returned
    all_servers,    \* the saved servers of the source
    ignoreFavoured, \* the ignore_favoured argument
    locPc,          \* "start" or "done"
    locResult       \* <<>> for None, or <<scheme, position of the entry>>

lockVars == <<instPc, instF, instLocked, instRaised, instExit, lockPath, inodeCount>>

gatherVars == <<argsRequired, argsOptional, downloadMode, apps, futures, merged_by_id,
                gatherPc, sorted_merged>>

mergeVars == <<mergeInput, mergeTaken, mergeCalls, mergedDict>>

procVars == <<dryRun, available, procPc, procIdx, logged, has_space, transfers, installs,
              downloaded, files, deleted, workdir, procExit>>

serverVars == <<argsMirror, cacheValue, argsCache, discovery, server, serverPc, url, urlPath>>

iterVars == <<argsForce, iterRecords, iterPc, iterResult>>

verVars == <<verInstalled, verRequired, verPc, verResult>>

installedVars == <<pkgVersion, file_check, hostFiles, hostVersion, installedPc,
                   installedResult>>

sizeVars == <<sizeRecords, sizePackages, sizePc, sizeTotal>>

mainVars == <<mainPc, mainLock, mainSignal, mainExit>>

warnVars == <<total_packages, error_packages, warnIdx, warnPc, warned>>

hrVars == <<hrInput, hrPc, hrResult>>

fallbackVars == <<fbName, fbStatus, fbRemote, fbTmp, fbFetched, fbPc, fbData>>

remergeVars == <<remergePc, remergeBefore>>

cacheVars == <<lruCache, cacheArg, cacheResult, cacheCalls>>

locatorVars == <<locData, all_servers, ignoreFavoured, locPc, locResult>>

vars == <<lockVars, gatherVars, mergeVars, procVars, serverVars, iterVars, verVars, installedVars, sizeVars, mainVars, warnVars, hrVars, fallbackVars, remergeVars, cacheVars, locatorVars>>

nonLockVars == <<gatherVars, mergeVars, procVars, serverVars, iterVars, verVars, installedVars, sizeVars, mainVars, warnVars, hrVars, fallbackVars, remergeVars, cacheVars, locatorVars>>

nonGatherVars == <<lockVars, mergeVars, procVars, serverVars, iterVars, verVars, installedVars, sizeVars, mainVars, warnVars, hrVars, fallbackVars, remergeVars, cacheVars, locatorVars>>

nonMergeVars == <<lockVars, gatherVars, procVars, serverVars, iterVars, verVars, installedVars, sizeVars, mainVars, warnVars, hrVars, fallbackVars, remergeVars, cacheVars, locatorVars>>

nonProcVars == <<lockVars, gatherVars, mergeVars, serverVars, iterVars, verVars, installedVars, sizeVars, mainVars, warnVars, hrVars, fallbackVars, remergeVars, cacheVars, locatorVars>>

nonServerVars == <<lockVars, gatherVars, mergeVars, procVars, iterVars, verVars, installedVars, sizeVars, mainVars, warnVars, hrVars, fallbackVars, remergeVars, cacheVars, locatorVars>>

nonIterVars == <<lockVars, gatherVars, mergeVars, procVars, serverVars, verVars, installedVars, sizeVars, mainVars, warnVars, hrVars, fallbackVars, remergeVars, cacheVars, locatorVars>>

nonVerVars == <<lockVars, gatherVars, mergeVars, procVars, serverVars, iterVars, installedVars, sizeVars, mainVars, warnVars, hrVars, fallbackVars, remergeVars, cacheVars, locatorVars>>

nonInstalledVars == <<lockVars, gatherVars, mergeVars, procVars, serverVars, iterVars, verVars, sizeVars, mainVars, warnVars, hrVars, fallbackVars, remergeVars, cacheVars, locatorVars>>

nonSizeVars == <<lockVars, gatherVars, mergeVars, procVars, serverVars, iterVars, verVars, installedVars, mainVars, warnVars, hrVars, fallbackVars, remergeVars, cacheVars, locatorVars>>

nonMainVars == <<lockVars, gatherVars, mergeVars, procVars, serverVars, iterVars, verVars, installedVars, sizeVars, warnVars, hrVars, fallbackVars, remergeVars, cacheVars, locatorVars>>

nonWarnVars == <<lockVars, gatherVars, mergeVars, procVars, serverVars, iterVars, verVars, installedVars, sizeVars, mainVars, hrVars, fallbackVars, remergeVars, cacheVars, locatorVars>>

nonHrVars == <<lockVars, gatherVars, mergeVars, procVars, serverVars, iterVars, verVars, installedVars, sizeVars, mainVars, warnVars, fallbackVars, remergeVars, cacheVars, locatorVars>>

nonFallbackVars == <<lockVars, gatherVars, mergeVars, procVars, serverVars, iterVars, verVars, installedVars, sizeVars, mainVars, warnVars, hrVars, remergeVars, cacheVars, locatorVars>>

nonRemergeVars == <<lockVars, gatherVars, mergeVars, procVars, serverVars, iterVars, verVars, installedVars, sizeVars, mainVars, warnVars, hrVars, fallbackVars, cacheVars, locatorVars>>

nonCacheVars == <<lockVars, gatherVars, mergeVars, procVars, serverVars, iterVars, verVars, installedVars, sizeVars, mainVars, warnVars, hrVars, fallbackVars, remergeVars, locatorVars>>

nonLocatorVars == <<lockVars, gatherVars, mergeVars, procVars, serverVars, iterVars, verVars, installedVars, sizeVars, mainVars, warnVars, hrVars, fallbackVars, remergeVars, cacheVars>>

(***************************************************************************)
(* flock_utils.py: lock_execution, one action per system call.             *)
(***************************************************************************)
Instances == 1..NumInstances

\* Exit statuses of __main__: AlreadyRunningError -> 1, KeyboardInterrupt -> 130,
\* sys.exit(2) of process_content, normal return -> 0.
BodyExits == {0, 2, 130}

\* a bug the lock could have: a lock is never given up, every flock is refused
InodeLockedAlways(i) == TRUE

\* flock(2): an exclusive lock on an inode conflicts with the lock of any other
\* open file description of the same inode.
InodeLocked(i) == \E q \in Instances : instLocked[q] /\ instF[q] = i

InitLock ==
    /\ instPc = [p \in Instances |-> "idle"]
    /\ instF = [p \in Instances |-> 0]
    /\ instLocked = [p \in Instances |-> FALSE]
    /\ instRaised = [p \in Instances |-> FALSE]
    /\ instExit = [p \in Instances |-> -1]
    /\ lockPath = 0
    /\ inodeCount = 0

\* python -m loopdown: the instance enters main() and lock_execution
StartInstance(p) ==
    /\ instPc[p] = "idle"
    /\ instPc' = [instPc EXCEPT ![p] = "touch"]
    /\ UNCHANGED <<instF, instLocked, instRaised, instExit, lockPath, inodeCount>>
    /\ UNCHANGED nonLockVars

\* fp.touch(exist_ok=True); os.chmod(fp, 0o666)
Touch(p) ==
    /\ instPc[p] = "touch"
    /\ IF lockPath = 0
          THEN /\ lockPath' = inodeCount + 1
               /\ inodeCount' = inodeCount + 1
          ELSE UNCHANGED <<lockPath, inodeCount>>
    /\ instPc' = [instPc EXCEPT ![p] = "open"]
    /\ UNCHANGED <<instF, instLocked, instRaised, instExit>>
    /\ UNCHANGED nonLockVars

\* f = fp.open("a+"): opens the file the path names now, creating it when absent
Open(p) ==
    /\ instPc[p] = "open"
    /\ IF lockPath = 0
          THEN /\ lockPath' = inodeCount + 1
               /\ inodeCount' = inodeCount + 1
               /\ instF' = [instF EXCEPT ![p] = inodeCount + 1]
          ELSE /\ instF' = [instF EXCEPT ![p] = lockPath]
               /\ UNCHANGED <<lockPath, inodeCount>>
    /\ instPc' = [instPc EXCEPT ![p] = "flock"]
    /\ UNCHANGED <<instLocked, instRaised, instExit>>
    /\ UNCHANGED nonLockVars

\* fcntl.flock(f, LOCK_EX | LOCK_NB); BlockingIOError -> raise AlreadyRunningError
Flock(p) ==
    /\ instPc[p] = "flock"
    /\ IF InodeLocked(instF[p])
          THEN /\ instRaised' = [instRaised EXCEPT ![p] = TRUE]
               /\ instPc' = [instPc EXCEPT ![p] = "unlock"]
               /\ UNCHANGED instLocked
          ELSE /\ instLocked' = [instLocked EXCEPT ![p] = TRUE]
               /\ instPc' = [instPc EXCEPT ![p] = "body"]
               /\ UNCHANGED instRaised
    /\ UNCHANGED <<instF, instExit, lockPath, inodeCount>>
    /\ UNCHANGED nonLockVars

\* yield: the body of main() ends (return, sys.exit, KeyboardInterrupt)
LeaveBody(p) ==
    /\ instPc[p] = "body"
    /\ \E st \in BodyExits : instExit' = [instExit EXCEPT ![p] = st]
    /\ instPc' = [instPc EXCEPT ![p] = "unlock"]
    /\ UNCHANGED <<instF, instLocked, instRaised, lockPath, inodeCount>>
    /\ UNCHANGED nonLockVars

\* finally: fcntl.flock(f, LOCK_UN)
Unlock(p) ==
    /\ instPc[p] = "unlock"
    /\ instLocked' = [instLocked EXCEPT ![p] = FALSE]
    /\ instPc' = [instPc EXCEPT ![p] = "close"]
    /\ UNCHANGED <<instF, instRaised, instExit, lockPath, inodeCount>>
    /\ UNCHANGED nonLockVars

\* finally: f.close()
Close(p) ==
    /\ instPc[p] = "close"
    /\ instF' = [instF EXCEPT ![p] = 0]
    /\ instLocked' = [instLocked EXCEPT ![p] = FALSE]
    /\ instPc' = [instPc EXCEPT ![p] = "unlink"]
    /\ UNCHANGED <<instRaised, instExit, lockPath, inodeCount>>
    /\ UNCHANGED nonLockVars

\* fp.unlink(), FileNotFoundError ignored; then __main__ maps the exception
\* to the exit status (AlreadyRunningError -> sys.exit(1))
Unlink(p) ==
    /\ instPc[p] = "unlink"
    /\ lockPath' = 0
    /\ instExit' = [instExit EXCEPT ![p] = IF instRaised[p] THEN 1 ELSE @]
    /\ instPc' = [instPc EXCEPT ![p] = "exited"]
    /\ UNCHANGED <<instF, instLocked, instRaised, inodeCount>>
    /\ UNCHANGED nonLockVars

NextLock ==
    \E p \in Instances :
        \/ StartInstance(p)
        \/ Touch(p)
        \/ Open(p)
        \/ Flock(p)
        \/ LeaveBody(p)
        \/ Unlock(p)
        \/ Close(p)
        \/ Unlink(p)

(***************************************************************************)
(* models/package.py, package_processing_mixin.py: packages and the merge. *)
(***************************************************************************)
Apps == 1..NumApps
PackageIds == 1..MaxId

\* DownloadSize values of the raw records (bytes)
Sizes == {50, 100}

\* InstalledSize values of the raw records (bytes)
InstalledSizes == {0, 100, 200}

\* AudioContentPackage.name is the basename of DownloadName; every package id
\* has its own package file, and names are compared as strings: the name of
\* package id i is represented by its rank i in string order.
NameOf(id) == id

\* A raw record after AudioContentPackage.__post_init__: package_id, mandatory
\* (bool(IsMandatory)), download_size, installed_size, name, and what
\* is_installed answers on this host for the record.
Packages ==
    [package_id : PackageIds, mandatory : BOOLEAN, download_size : Sizes,
     installed_size : InstalledSizes, name : PackageIds, is_installed : BOOLEAN]

\* the packages whose name is the name of their package file
NamedPackages == {r \in Packages : r.name = NameOf(r.package_id)}

\* the raw records the applications declare; the gather and the merge never
\* read installed_size, their records carry one value per download size
Records == {r \in NamedPackages : r.installed_size = 2 * r.download_size}

\* the packages as the merge sees them (is_installed is not a field of
\* AudioContentPackage but a property that asks the host)
MergePackages == {r \in Records : ~r.is_installed}

\* dict keyed by package_id, kept as the sequence of its values in insertion order
DictHas(d, id) == \E i \in 1..Len(d) : d[i].package_id = id

DictIndex(d, id) == CHOOSE i \in 1..Len(d) : d[i].package_id = id

DictIds(d) == {d[i].package_id : i \in 1..Len(d)}

DictGet(d, id) == d[DictIndex(d, id)]

\* a bug the merge could have: the record seen last wins
PreferCandidate(existing, candidate) == candidate

\* PackageProcessingMixin._prefer_mandatory_pkg
_prefer_mandatory_pkg(existing, candidate) ==
    IF existing.mandatory \/ candidate.mandatory
        THEN (IF existing.mandatory THEN existing ELSE candidate)
        ELSE existing

\* a bug the merge could have: every package is added as a new entry
MergeOneAppends(merged, pkg) == Append(merged, pkg)

\* one iteration of the loop of _merge_packages_by_id (and of the by_id loop of
\* _iter_app_packages, which is the same code)
MergeOne(merged, pkg) ==
    IF ~DictHas(merged, pkg.package_id)
        THEN Append(merged, pkg)
        ELSE [merged EXCEPT ![DictIndex(merged, pkg.package_id)] = _prefer_mandatory_pkg(@, pkg)]

\* PackageProcessingMixin._merge_packages_by_id; incoming in iteration order
RECURSIVE _merge_packages_by_id(_, _)
_merge_packages_by_id(merged, incoming) ==
    IF incoming = <<>>
        THEN merged
        ELSE _merge_packages_by_id(MergeOne(merged, Head(incoming)), Tail(incoming))

\* a bug the selection could have: every package is taken, whatever the flags
AddAnyPackage(pkg, required, optional) == TRUE

\* PackageProcessingMixin._add_pkg_for_processing
_add_pkg_for_processing(pkg, required, optional) ==
    (pkg.mandatory /\ required) \/ (~pkg.mandatory /\ optional)

\* arguments_builder.py registers -f/--force with dest="force": the namespace
\* has no attribute force_install, so reading args.force_install raises
\* AttributeError.
ArgsHasForceInstall == FALSE

\* PackageProcessingMixin._iter_app_packages, the loop over the raw records:
\* the by_id dict built from them, or "raised" when a record makes the worker
\* raise (args.force_install is read only for an installed package in deploy mode).
RECURSIVE IterRecords(_, _, _, _, _)
IterRecords(recs, by_id, required, optional, download) ==
    IF recs = <<>>
        THEN [raised |-> FALSE, pkgs |-> by_id]
        ELSE LET pkg == Head(recs)
             IN  IF ~download /\ pkg.is_installed /\ ~ArgsHasForceInstall
                     THEN [raised |-> TRUE, pkgs |-> <<>>]
                     ELSE IF ~_add_pkg_for_processing(pkg, required, optional)
                         THEN IterRecords(Tail(recs), by_id, required, optional, download)
                         ELSE IterRecords(Tail(recs), MergeOne(by_id, pkg),
                                          required, optional, download)

\* States of an application's metadata source (Application._read_metadata_source_file):
\*   ok          the resource file was found, opened and parsed
\*   no_resource _find_resource_file found nothing            -> None
\*   unreadable  resource_file.open raises OSError              -> the exception propagates
\*   malformed   plistlib.load raises; it is logged             -> None
\*   no_packages the property list has no "Packages" key        -> None
EmptySources == {"no_resource", "unreadable", "malformed", "no_packages"}

\* Application._read_metadata_source_file: only resource_file.open is outside
\* the try block
ReadRaises(app) == app.source = "unreadable"

\* PackageProcessingMixin._iter_app_packages for one application
_iter_app_packages(app, required, optional, download) ==
    IF ReadRaises(app)
        THEN [raised |-> TRUE, pkgs |-> <<>>]
        ELSE IF app.source # "ok"
            THEN [raised |-> FALSE, pkgs |-> <<>>]
            ELSE IterRecords(app.records, <<>>, required, optional, download)

\* sort key of _gather_packages_concurrently: (not mandatory, download_size, name)
KeyLess(p, q) ==
    \/ (p.mandatory /\ ~q.mandatory)
    \/ (p.mandatory = q.mandatory /\ p.download_size < q.download_size)
    \/ (p.mandatory = q.mandatory /\ p.download_size = q.download_size /\ p.name < q.name)

\* insert p into the sorted sequence s after every element that is not greater
RECURSIVE InsertSorted(_, _)
InsertSorted(s, p) ==
    IF s = <<>> THEN <<p>>
    ELSE IF KeyLess(p, Head(s)) THEN <<p>> \o s
    ELSE <<Head(s)>> \o InsertSorted(Tail(s), p)

\* sorted(merged_list, key=...): a stable sort
RECURSIVE Sorted(_, _)
Sorted(done, rest) ==
    IF rest = <<>> THEN done ELSE Sorted(InsertSorted(done, Head(rest)), Tail(rest))

\* all the orders in which a set can be iterated
Orderings(S) ==
    {s \in [1..Cardinality(S) -> S] : \A i, j \in 1..Cardinality(S) : i # j => s[i] # s[j]}

SeqToSet(s) == {s[i] : i \in 1..Len(s)}

(***************************************************************************)
(* _gather_packages_concurrently / _iter_packages_concurrently             *)
(***************************************************************************)
RecSeqs == UNION {[1..k -> Records] : k \in 0..MaxRecs}

\* where the records of application a start and end in the sequence of all
\* records, given the cut points c (c[a] is the end of application a's records)
AppRecords(t, c, a) ==
    SubSeq(t, (IF a = 1 THEN 0 ELSE c[a - 1]) + 1, IF a = NumApps THEN Len(t) ELSE c[a])

Cuts(t) ==
    {c \in [1..(NumApps - 1) -> 0..Len(t)] : \A i, j \in 1..(NumApps - 1) : i <= j => c[i] <= c[j]}

IdleArgs ==
    /\ argsRequired = FALSE
    /\ argsOptional = FALSE
    /\ downloadMode = FALSE

IdleGather ==
    /\ IdleArgs
    /\ apps = <<>>
    /\ futures = <<>>
    /\ merged_by_id = <<>>
    /\ gatherPc = "idle"
    /\ sorted_merged = <<>>

\* the applications found on the host and their metadata; the futures are
\* submitted to the executor
InitGather ==
    /\ argsRequired \in BOOLEAN
    /\ argsOptional \in BOOLEAN
    /\ downloadMode \in BOOLEAN
    /\ \E t \in RecSeqs : \E c \in Cuts(t) :
          \E src \in [Apps -> EmptySources \cup {"ok"}] :
              /\ \A a \in Apps : src[a] = "ok" <=> AppRecords(t, c, a) # <<>>
              /\ apps = [a \in Apps |-> [source |-> src[a], records |-> AppRecords(t, c, a)]]
    /\ futures = [a \in Apps |-> [state |-> "pending", raised |-> FALSE, pkgs |-> <<>>]]
    /\ merged_by_id = <<>>
    /\ gatherPc = "running"
    /\ sorted_merged = <<>>

\* a worker thread finishes self._iter_app_packages(app); the set it returns
\* is iterated in an order the model leaves open
WorkerDone(a) ==
    /\ gatherPc = "running"
    /\ futures[a].state = "pending"
    /\ LET r == _iter_app_packages(apps[a], argsRequired, argsOptional, downloadMode)
       IN  \E o \in Orderings(SeqToSet(r.pkgs)) :
              futures' = [futures EXCEPT ![a] = [state |-> "done", raised |-> r.raised, pkgs |-> o]]
    /\ UNCHANGED <<argsRequired, argsOptional, downloadMode, apps, merged_by_id, gatherPc,
                   sorted_merged>>
    /\ UNCHANGED nonGatherVars

\* as_completed yields a finished future: future.result() and the merge of
\* its packages into merged_by_id
YieldResult(a) ==
    /\ gatherPc = "running"
    /\ futures[a].state = "done"
    /\ ~futures[a].raised
    /\ futures' = [futures EXCEPT ![a].state = "yielded"]
    /\ merged_by_id' = _merge_packages_by_id(merged_by_id, futures[a].pkgs)
    /\ UNCHANGED <<argsRequired, argsOptional, downloadMode, apps, gatherPc, sorted_merged>>
    /\ UNCHANGED nonGatherVars

\* future.result() re-raises the worker's exception; it leaves the generator
\* and _gather_packages_concurrently
YieldRaises(a) ==
    /\ gatherPc = "running"
    /\ futures[a].state = "done"
    /\ futures[a].raised
    /\ futures' = [futures EXCEPT ![a].state = "yielded"]
    /\ gatherPc' = "raised"
    /\ UNCHANGED <<argsRequired, argsOptional, downloadMode, apps, merged_by_id, sorted_merged>>
    /\ UNCHANGED nonGatherVars

\* every future was yielded: sort and return
GatherReturn ==
    /\ gatherPc = "running"
    /\ \A a \in Apps : futures[a].state = "yielded"
    /\ sorted_merged' = Sorted(<<>>, merged_by_id)
    /\ gatherPc' = "returned"
    /\ UNCHANGED <<argsRequired, argsOptional, downloadMode, apps, futures, merged_by_id>>
    /\ UNCHANGED nonGatherVars

NextGather ==
    \/ \E a \in Apps : WorkerDone(a)
    \/ \E a \in Apps : YieldResult(a)
    \/ \E a \in Apps : YieldRaises(a)
    \/ GatherReturn

(***************************************************************************)
(* _merge_packages_by_id on the groups of a partition of a collection      *)
(***************************************************************************)
IdleMerge ==
    /\ mergeInput = <<>>
    /\ mergeTaken = {}
    /\ mergeCalls = 0
    /\ mergedDict = <<>>

InitMerge ==
    /\ mergeInput \in UNION {[1..k -> MergePackages] : k \in 0..MaxMerge}
    /\ mergeTaken = {}
    /\ mergeCalls = 0
    /\ mergedDict = <<>>

\* self._merge_packages_by_id(merged, incoming) for the next group of the
\* partition: any packages not merged yet, iterated in any order
MergeGroup ==
    \E G \in SUBSET ((1..Len(mergeInput)) \ mergeTaken) :
        /\ G # {}
        /\ \E o \in Orderings(G) :
              mergedDict' = _merge_packages_by_id(mergedDict, [i \in 1..Len(o) |-> mergeInput[o[i]]])
        /\ mergeTaken' = mergeTaken \cup G
        /\ mergeCalls' = mergeCalls + 1
        /\ UNCHANGED mergeInput
        /\ UNCHANGED nonMergeVars

NextMerge == MergeGroup

(***************************************************************************)
(* context.process_content with _has_space_available, _download, _install  *)
(* and _cleanup                                                            *)
(***************************************************************************)
\* values of disk_space_available() (bytes)
Availables == {150, 300, 1000}

\* the packages process_content works on (is_installed plays no part in it)
ProcPackages == {r \in NamedPackages : ~r.is_installed}

\* the lists _gather_packages_concurrently can return under the arguments:
\* one package per id, every package passes _add_pkg_for_processing, sorted
ResolvedLists(required, optional) ==
    {Sorted(<<>>, [i \in 1..Cardinality(DOMAIN f) |->
                       f[(CHOOSE o \in Orderings(DOMAIN f) : TRUE)[i]]]) :
        f \in UNION {{g \in [I -> ProcPackages] :
                        \A id \in I : /\ g[id].package_id = id
                                      /\ _add_pkg_for_processing(g[id], required, optional)} :
                     I \in SUBSET PackageIds}}

RECURSIVE _generate_bucket_stats(_, _, _, _)
\* req + opt of _generate_bucket_stats: count, down and inst of the packages
\* of the wanted classes
_generate_bucket_stats(packages, want_req, want_opt, total) ==
    IF packages = <<>> THEN total
    ELSE LET pkg == Head(packages)
             counted == (want_req /\ pkg.mandatory) \/ (want_opt /\ ~pkg.mandatory)
         IN  _generate_bucket_stats(Tail(packages), want_req, want_opt,
                 IF counted
                 THEN [count |-> total.count + 1,
                       down |-> total.down + pkg.download_size,
                       inst |-> total.inst + pkg.installed_size]
                 ELSE total)

\* tot_reqd_space of _has_space_available
tot_reqd_space(packages, want_req, want_opt) ==
    LET total == _generate_bucket_stats(packages, want_req, want_opt,
                                        [count |-> 0, down |-> 0, inst |-> 0])
    IN  total.down + total.inst

\* has_space of _has_space_available
HasSpace(avail, packages, want_req, want_opt) ==
    avail > tot_reqd_space(packages, want_req, want_opt)

\* a bug the space check could have: it never exits
SpaceExitNever(dry_run, enough) == FALSE

\* _has_space_available: the condition of its sys.exit(2)
SpaceExit(dry_run, enough) == ~dry_run /\ ~enough

\* what curl can leave at dest: nothing, a file that is not a signed Apple
\* package, or the signed package
FileStates == {"absent", "partial", "complete"}

\* a bug the check of the download could have: every transfer counts as done
HasBeenDownloadedAlways(file) == TRUE

\* _has_been_downloaded: exists and signed
_has_been_downloaded(file) == file # "absent" /\ file = "complete"

\* a bug the loop could have: only download mode skips the installer
SkipInstallInDownloadMode(download_mode, was_downloaded) == download_mode

\* process_content: the condition of the continue after _download
SkipInstall(download_mode, was_downloaded) == download_mode \/ ~was_downloaded

\* a bug _cleanup could have: it does not look at dry_run
CleanupIgnoresDryRun(dry_run, download_mode, exists) == ~download_mode /\ exists

\* _cleanup: the condition of shutil.rmtree
CleanupRemoves(dry_run, download_mode, exists) == ~dry_run /\ ~download_mode /\ exists

IdleProcess ==
    /\ dryRun = FALSE
    /\ available = 0
    /\ procPc = "idle"
    /\ procIdx = 0
    /\ logged = 0
    /\ has_space = "none"
    /\ transfers = <<>>
    /\ installs = <<>>
    /\ downloaded = <<>>
    /\ files = <<>>
    /\ deleted = {}
    /\ workdir = "absent"
    /\ procExit = -1

\* process_content is entered: self.packages is what the gather returned
InitProcess ==
    /\ argsRequired \in BOOLEAN
    /\ argsOptional \in BOOLEAN
    /\ downloadMode \in BOOLEAN
    /\ apps = <<>>
    /\ futures = <<>>
    /\ merged_by_id = <<>>
    /\ gatherPc = "returned"
    /\ sorted_merged \in ResolvedLists(argsRequired, argsOptional)
    /\ dryRun \in BOOLEAN
    /\ available \in Availables
    /\ procPc = "start"
    /\ procIdx = 0
    /\ logged = 0
    /\ has_space = "none"
    /\ transfers = <<>>
    /\ installs = <<>>
    /\ downloaded = [i \in 1..Len(sorted_merged) |-> "none"]
    /\ files = [i \in 1..Len(sorted_merged) |-> "absent"]
    /\ deleted = {}
    /\ workdir \in {"absent", "exists"}
    /\ procExit = -1

\* process_content up to the loop: no packages, or _has_space_available
Preflight ==
    /\ procPc = "start"
    /\ IF sorted_merged = <<>>
       THEN /\ procPc' = "done"
            /\ UNCHANGED <<has_space, procIdx, procExit>>
       ELSE LET enough == HasSpace(available, sorted_merged, argsRequired, argsOptional)
            IN  /\ has_space' = (IF enough THEN "yes" ELSE "no")
                /\ IF SpaceExit(dryRun, enough)
                   THEN /\ procPc' = "no_space"
                        /\ procExit' = 2
                        /\ UNCHANGED procIdx
                   ELSE /\ procPc' = "loop"
                        /\ procIdx' = 1
                        /\ UNCHANGED procExit
    /\ UNCHANGED <<dryRun, available, logged, transfers, installs, downloaded, files, deleted,
                   workdir>>
    /\ UNCHANGED nonProcVars

\* one iteration of the loop in a dry run: the log line, then continue
LoopDryRun ==
    /\ procPc = "loop"
    /\ procIdx <= Len(sorted_merged)
    /\ dryRun
    /\ logged' = logged + 1
    /\ procIdx' = procIdx + 1
    /\ UNCHANGED <<dryRun, available, procPc, has_space, transfers, installs, downloaded, files,
                   deleted, workdir, procExit>>
    /\ UNCHANGED nonProcVars

\* one iteration up to the installer: the log line, _download (curl, then
\* _has_been_downloaded), and the continue in download mode or on failure
LoopDownload ==
    /\ procPc = "loop"
    /\ procIdx <= Len(sorted_merged)
    /\ ~dryRun
    /\ logged' = logged + 1
    /\ transfers' = Append(transfers, procIdx)
    /\ \E outcome \in FileStates :
          /\ files' = [files EXCEPT ![procIdx] = outcome]
          /\ workdir' = IF outcome = "absent" THEN workdir ELSE "exists"
          /\ downloaded' = [downloaded EXCEPT ![procIdx] =
                               IF _has_been_downloaded(outcome) THEN "yes" ELSE "no"]
          /\ IF SkipInstall(downloadMode, _has_been_downloaded(outcome))
             THEN /\ procIdx' = procIdx + 1
                  /\ UNCHANGED procPc
             ELSE /\ procPc' = "install"
                  /\ UNCHANGED procIdx
    /\ UNCHANGED <<dryRun, available, has_space, installs, deleted, procExit>>
    /\ UNCHANGED nonProcVars

\* the rest of the iteration: _install(dest) and the unlink after a
\* successful install
LoopInstall ==
    /\ procPc = "install"
    /\ installs' = Append(installs, procIdx)
    /\ \E installed \in BOOLEAN :
          IF installed
          THEN /\ files' = [files EXCEPT ![procIdx] = "absent"]
               /\ deleted' = deleted \cup {procIdx}
          ELSE UNCHANGED <<files, deleted>>
    /\ procIdx' = procIdx + 1
    /\ procPc' = "loop"
    /\ UNCHANGED <<dryRun, available, logged, has_space, transfers, downloaded, workdir,
                   procExit>>
    /\ UNCHANGED nonProcVars

\* after the loop: the dry run summary and _cleanup
Finish ==
    /\ procPc = "loop"
    /\ procIdx > Len(sorted_merged)
    /\ IF CleanupRemoves(dryRun, downloadMode, workdir = "exists")
       THEN \E removed \in BOOLEAN :
               IF removed
               THEN /\ workdir' = "removed"
                    /\ files' = [i \in DOMAIN files |-> "absent"]
                    /\ procPc' = "done"
                    /\ UNCHANGED procExit
               ELSE /\ procPc' = "cleanup_failed"
                    /\ procExit' = 2
                    /\ UNCHANGED <<workdir, files>>
       ELSE /\ procPc' = "done"
            /\ UNCHANGED <<workdir, files, procExit>>
    /\ UNCHANGED <<dryRun, available, procIdx, logged, has_space, transfers, installs,
                   downloaded, deleted>>
    /\ UNCHANGED nonProcVars

NextProcess ==
    \/ Preflight
    \/ LoopDryRun
    \/ LoopDownload
    \/ LoopInstall
    \/ Finish

(***************************************************************************)
(* arg_helpers.CachingServer, normalizers.normalize_caching_server_url,    *)
(* download_mixin._resolve_server and _generate_url_and_dest.  A string is *)
(* the sequence of its pieces: "http:", "//", a host[:port], "/", a path   *)
(* segment, "?", the text of a query.                                      *)
(***************************************************************************)
\* Python's None where a string can stand
None == <<"None">>

\* the string 'auto'
Auto == <<"auto">>

\* the const of -c/--cache-server: the option was given without a value
AUTO == <<"AUTO">>

Schemes == {"http:", "https:"}

\* the netlocs that have a port
WithPort == {"cache1:49152", "cache2:49152"}

\* AppleConsts.CONTENT_SOURCE
CONTENT_SOURCE == <<"https:", "//", "audiocontentdownload.apple.com">>

\* values of -m/--mirror-server that MirrorServer accepts
MirrorValues == {<<"https:", "//", "mirror.example.org">>}

\* values given to -c/--cache-server
CacheValues ==
    {<<"http:", "//", "cache1:49152">>,
     <<"http:", "//", "cache1:49152", "/">>,
     <<"https:", "//", "cache1:49152">>}

\* what extract_cache_server returns: None, or "http://" and the hostport of
\* the first healthy server
DiscoveryValues == {None, <<"http:", "//", "cache2:49152">>, <<"http:", "//", "cache2">>}

\* AudioContentPackage.download_path values
DownloadPaths ==
    {<<"lp10_ms3_content_2016", "/", "a.pkg">>, <<"lp10_ms3_content_2013", "/", "b.pkg">>}

\* index of the first piece of s that is in the set T, Len(s) + 1 if none
FirstIn(s, T) ==
    IF \E i \in 1..Len(s) : s[i] \in T
    THEN CHOOSE i \in 1..Len(s) : s[i] \in T /\ \A j \in 1..(i - 1) : s[j] \notin T
    ELSE Len(s) + 1

\* urllib.parse.urlparse: scheme, netloc, path and query of a string
urlparse(u) ==
    LET hasScheme == u # <<>> /\ u[1] \in Schemes
        r1 == IF hasScheme THEN Tail(u) ELSE u
        hasNetloc == r1 # <<>> /\ r1[1] = "//"
        r2 == IF hasNetloc THEN Tail(r1) ELSE r1
        e == IF hasNetloc THEN FirstIn(r2, {"/", "?"}) ELSE 1
        r3 == SubSeq(r2, e, Len(r2))
        q == FirstIn(r3, {"?"})
    IN  [scheme |-> IF hasScheme THEN <<u[1]>> ELSE <<>>,
         netloc |-> SubSeq(r2, 1, e - 1),
         path |-> SubSeq(r3, 1, q - 1),
         query |-> SubSeq(r3, q + 1, Len(r3))]

\* urllib.parse.urlunparse
urlunparse(p) ==
    LET rooted == IF p.netloc # <<>> /\ p.path # <<>> /\ p.path[1] # "/"
                  THEN <<"/">> \o p.path ELSE p.path
        withNetloc == IF p.netloc # <<>> THEN <<"//">> \o p.netloc \o rooted ELSE rooted
        withScheme == p.scheme \o withNetloc
    IN  IF p.query # <<>> THEN withScheme \o <<"?">> \o p.query ELSE withScheme

RECURSIVE JoinSegments(_)
JoinSegments(segs) ==
    IF segs = <<>> THEN <<>>
    ELSE IF Len(segs) = 1 THEN segs
    ELSE <<Head(segs), "/">> \o JoinSegments(Tail(segs))

\* posixpath.normpath for paths without "." and ".." segments
normpath(path) ==
    LET segs == SelectSeq(path, LAMBDA t : t # "/")
        joined == (IF path # <<>> /\ path[1] = "/" THEN <<"/">> ELSE <<>>) \o JoinSegments(segs)
    IN  IF joined = <<>> THEN <<".">> ELSE joined

\* normalizers.normalize_caching_server_url
normalize_caching_server_url(u) ==
    LET content_source == urlparse(CONTENT_SOURCE).netloc
        query == <<"source=">> \o content_source \o <<"&sourceScheme=https">>
        parsed == urlparse(u)
        normed == normpath(parsed.path)
        path == IF normed \in {<<".">>, <<"/">>} THEN <<>> ELSE normed
    IN  urlunparse([scheme |-> <<"http:">>, netloc |-> parsed.netloc, path |-> path,
                    query |-> query])

\* validators.validate_url(url, reqd_scheme="http", validate_port=True)
\* returns an error message
validate_url_fails(u) ==
    LET parsed == urlparse(u)
    IN  \/ parsed.scheme # <<"http:">>
        \/ ~(\E n \in WithPort : parsed.netloc = <<n>>)
        \/ parsed.query # <<>>
        \/ parsed.path \notin {<<>>, <<"/">>}

IdleServer ==
    /\ argsMirror = None
    /\ cacheValue = None
    /\ argsCache = None
    /\ discovery = None
    /\ server = None
    /\ serverPc = "idle"
    /\ url = None
    /\ urlPath = None

\* the command line and the host
InitServer ==
    /\ argsRequired = FALSE
    /\ argsOptional = FALSE
    /\ downloadMode \in BOOLEAN
    /\ apps = <<>>
    /\ futures = <<>>
    /\ merged_by_id = <<>>
    /\ gatherPc = "idle"
    /\ sorted_merged = <<>>
    /\ argsMirror \in MirrorValues \cup {None}
    /\ cacheValue \in CacheValues \cup {None, AUTO}
    /\ argsCache = None
    /\ discovery \in DiscoveryValues
    /\ server = None
    /\ serverPc = "args"
    /\ url = None
    /\ urlPath = None

\* argparse for -c/--cache-server: the default None when the option is
\* absent, otherwise CachingServer.__call__
ParseCacheServer ==
    /\ serverPc = "args"
    /\ argsCache' = IF cacheValue = None THEN None
                    ELSE IF cacheValue = AUTO THEN Auto
                    ELSE normalize_caching_server_url(cacheValue)
    /\ serverPc' = "parsed"
    /\ UNCHANGED <<argsMirror, cacheValue, discovery, server, url, urlPath>>
    /\ UNCHANGED nonServerVars

\* what _resolve_server returns (None here: it raised ValueError)
_resolve_server ==
    IF downloadMode THEN CONTENT_SOURCE
    ELSE IF argsMirror # None THEN argsMirror
    ELSE IF argsCache # None THEN argsCache
    ELSE IF discovery = None THEN CONTENT_SOURCE
    ELSE IF validate_url_fails(discovery) THEN None
    ELSE normalize_caching_server_url(discovery)

\* the first read of self.server
ResolveServer ==
    /\ serverPc = "parsed"
    /\ IF _resolve_server = None
       THEN /\ serverPc' = "value_error"
            /\ UNCHANGED server
       ELSE /\ serverPc' = "resolved"
            /\ server' = _resolve_server
    /\ UNCHANGED <<argsMirror, cacheValue, argsCache, discovery, url, urlPath>>
    /\ UNCHANGED nonServerVars

\* _generate_url_and_dest(pkg): f"{self.server}/{pkg.download_path}"
GenerateUrl ==
    /\ serverPc = "resolved"
    /\ \E path \in DownloadPaths :
          /\ url' = server \o <<"/">> \o path
          /\ urlPath' = path
    /\ UNCHANGED <<argsMirror, cacheValue, argsCache, discovery, server, serverPc>>
    /\ UNCHANGED nonServerVars

NextServer ==
    \/ ParseCacheServer
    \/ ResolveServer
    \/ GenerateUrl

(***************************************************************************)
(* _iter_app_packages on the raw records of one application                *)
(***************************************************************************)
\* the raw records of the application: the filter reads package_id,
\* mandatory and is_installed, the records carry one size
IterPackages ==
    {r \in [package_id : 1..MaxIterId, mandatory : BOOLEAN, download_size : {50},
            installed_size : {100}, name : 1..MaxIterId, is_installed : BOOLEAN] :
        r.name = NameOf(r.package_id)}

IdleIter ==
    /\ argsForce = FALSE
    /\ iterRecords = <<>>
    /\ iterPc = "idle"
    /\ iterResult = [raised |-> FALSE, pkgs |-> <<>>]

\* the command line and app.packages
InitIter ==
    /\ argsRequired \in BOOLEAN
    /\ argsOptional \in BOOLEAN
    /\ downloadMode \in BOOLEAN
    /\ apps = <<>>
    /\ futures = <<>>
    /\ merged_by_id = <<>>
    /\ gatherPc = "idle"
    /\ sorted_merged = <<>>
    /\ argsForce \in BOOLEAN
    /\ iterRecords \in UNION {[1..k -> IterPackages] : k \in 0..MaxIterRecs}
    /\ iterPc = "start"
    /\ iterResult = [raised |-> FALSE, pkgs |-> <<>>]

\* self._iter_app_packages(app); args.force is not read by it
IterAppPackages ==
    /\ iterPc = "start"
    /\ iterResult' = IterRecords(iterRecords, <<>>, argsRequired, argsOptional, downloadMode)
    /\ iterPc' = "done"
    /\ UNCHANGED <<argsForce, iterRecords>>
    /\ UNCHANGED nonIterVars

NextIter == IterAppPackages

(***************************************************************************)
(* package_utils.installed_version_satisfies_required_version.  A version  *)
(* is its release tuple (packaging.version.Version.release).               *)
(***************************************************************************)
Releases == UNION {[1..k -> 0..MaxVerComp] : k \in 0..MaxVerLen}

\* inst + (0,) * n
RECURSIVE PadZeros(_, _)
PadZeros(t, n) == IF n <= 0 THEN t ELSE PadZeros(Append(t, 0), n - 1)

\* a bug the comparison could have: every component is compared on its own
ComponentsGeq(a, b) == \A k \in 1..Len(b) : a[k] >= b[k]

\* a >= b for Python tuples of the same length: the first components that
\* differ decide
RECURSIVE TupleGeq(_, _)
TupleGeq(a, b) ==
    IF a = <<>> \/ b = <<>> THEN TRUE
    ELSE IF Head(a) # Head(b) THEN Head(a) > Head(b)
    ELSE TupleGeq(Tail(a), Tail(b))

installed_version_satisfies_required_version(installed, required) ==
    IF required = <<>> THEN TRUE
    ELSE LET inst_prefix == IF Len(installed) < Len(required)
                            THEN PadZeros(installed, Len(required) - Len(installed))
                            ELSE SubSeq(installed, 1, Len(required))
         IN  TupleGeq(inst_prefix, required)

IdleVersion ==
    /\ verInstalled = <<>>
    /\ verRequired = <<>>
    /\ verPc = "idle"
    /\ verResult = FALSE

InitVersion ==
    /\ verInstalled \in Releases
    /\ verRequired \in Releases
    /\ verPc = "start"
    /\ verResult = FALSE

SatisfiesRequired ==
    /\ verPc = "start"
    /\ verResult' = installed_version_satisfies_required_version(verInstalled, verRequired)
    /\ verPc' = "done"
    /\ UNCHANGED <<verInstalled, verRequired>>
    /\ UNCHANGED nonVerVars

NextVersion == SatisfiesRequired

(***************************************************************************)
(* models/package.py: AudioContentPackage.is_installed with                *)
(* has_sentinel_files and installed_version                                *)
(***************************************************************************)
\* the paths a file_check list can name
SentinelFiles == 1..MaxFiles

\* the release tuples used for the declared and the installed version
VersionSamples == {r \in Releases : Len(r) \in 1..2}

\* package_utils.found_sentinel_files(files) on a host where the listed of
\* the set existing exist
found_sentinel_files(listed, existing) == \E i \in 1..Len(listed) : listed[i] \in existing

\* AudioContentPackage.installed_version: 0.0.0 without sentinel listed,
\* otherwise what pkgutil reports for the package id
installed_version(listed, existing, reported) ==
    IF ~found_sentinel_files(listed, existing) THEN <<0, 0, 0>> ELSE reported

\* AudioContentPackage.is_installed
is_installed(version, listed, existing, reported) ==
    IF ~version.declared
    THEN found_sentinel_files(listed, existing)
    ELSE installed_version_satisfies_required_version(
             installed_version(listed, existing, reported), version.release)

IdleInstalled ==
    /\ pkgVersion = [declared |-> FALSE, release |-> <<>>]
    /\ file_check = <<>>
    /\ hostFiles = {}
    /\ hostVersion = <<>>
    /\ installedPc = "idle"
    /\ installedResult = FALSE

\* a package of the metadata and the state of the host
InitInstalled ==
    /\ pkgVersion \in {[declared |-> FALSE, release |-> <<>>]}
                      \cup {[declared |-> TRUE, release |-> r] : r \in VersionSamples}
    /\ file_check \in UNION {[1..k -> SentinelFiles] : k \in 0..MaxFiles}
    /\ hostFiles \in SUBSET SentinelFiles
    /\ hostVersion \in VersionSamples
    /\ installedPc = "start"
    /\ installedResult = FALSE

\* pkg.is_installed is read
IsInstalled ==
    /\ installedPc = "start"
    /\ installedResult' = is_installed(pkgVersion, file_check, hostFiles, hostVersion)
    /\ installedPc' = "done"
    /\ UNCHANGED <<pkgVersion, file_check, hostFiles, hostVersion>>
    /\ UNCHANGED nonInstalledVars

NextInstalled == IsInstalled

(***************************************************************************)
(* _generate_audio_package_dataclass_obj, AudioContentPackage.__post_init__*)
(* and models/size.py on records whose size keys can be absent or null.    *)
(* A value that can be None is a record: none tells whether it is None,    *)
(* raw is the integer otherwise.                                           *)
(***************************************************************************)
\* data.get("DownloadSize") / data.get("InstalledSize"): None for an absent
\* or null key
RawSizeValues(values) ==
    {[none |-> TRUE, raw |-> 0]} \cup {[none |-> FALSE, raw |-> v] : v \in values}

RawSizeRecords ==
    [DownloadSize : RawSizeValues(Sizes), InstalledSize : RawSizeValues(InstalledSizes),
     IsMandatory : BOOLEAN]

\* Size(value): the dataclass stores the value it is given in raw
Size(value) == value

\* AudioContentPackage(**values) and __post_init__, for the size fields and
\* the mandatory flag
_generate_audio_package_dataclass_obj(data) ==
    [download_size |-> Size(data.DownloadSize),
     installed_size |-> Size(data.InstalledSize),
     mandatory |-> data.IsMandatory]

\* Size.__iadd__ / Size.__add__: self.raw + other.raw is a TypeError when a
\* raw is None
SizeAdd(a, b) ==
    IF a.none \/ b.none THEN [none |-> TRUE, raw |-> 0]
    ELSE [none |-> FALSE, raw |-> a.raw + b.raw]

RECURSIVE AddSizes(_, _, _, _)
\* _generate_bucket_stats_cache with BucketStats.add and req + opt, then
\* total.down + total.inst of _has_space_available; none: a TypeError was raised
AddSizes(packages, want_req, want_opt, total) ==
    IF packages = <<>> THEN SizeAdd(total.down, total.inst)
    ELSE LET pkg == Head(packages)
             counted == (want_req /\ pkg.mandatory) \/ (want_opt /\ ~pkg.mandatory)
             down == SizeAdd(total.down, pkg.download_size)
             inst == SizeAdd(total.inst, pkg.installed_size)
         IN  IF ~counted THEN AddSizes(Tail(packages), want_req, want_opt, total)
             ELSE IF down.none \/ inst.none THEN [none |-> TRUE, raw |-> 0]
             ELSE AddSizes(Tail(packages), want_req, want_opt, [down |-> down, inst |-> inst])

IdleSize ==
    /\ sizeRecords = <<>>
    /\ sizePackages = <<>>
    /\ sizePc = "idle"
    /\ sizeTotal = [none |-> FALSE, raw |-> 0]

\* the raw records of the metadata and the selection
InitSize ==
    /\ argsRequired \in BOOLEAN
    /\ argsOptional \in BOOLEAN
    /\ downloadMode = FALSE
    /\ apps = <<>>
    /\ futures = <<>>
    /\ merged_by_id = <<>>
    /\ gatherPc = "idle"
    /\ sorted_merged = <<>>
    /\ sizeRecords \in UNION {[1..k -> RawSizeRecords] : k \in 0..MaxSizeRecs}
    /\ sizePackages = <<>>
    /\ sizePc = "start"
    /\ sizeTotal = [none |-> FALSE, raw |-> 0]

\* the packages are made from the raw records
NormalizeRecords ==
    /\ sizePc = "start"
    /\ sizePackages' = [i \in 1..Len(sizeRecords) |->
                           _generate_audio_package_dataclass_obj(sizeRecords[i])]
    /\ sizePc' = "normalized"
    /\ UNCHANGED <<sizeRecords, sizeTotal>>
    /\ UNCHANGED nonSizeVars

\* the bucket statistics and the required space are computed for them
AccumulateSizes ==
    /\ sizePc = "normalized"
    /\ LET sum == AddSizes(sizePackages, argsRequired, argsOptional,
                           [down |-> [none |-> FALSE, raw |-> 0],
                            inst |-> [none |-> FALSE, raw |-> 0]])
       IN  IF sum.none
           THEN /\ sizePc' = "type_error"
                /\ UNCHANGED sizeTotal
           ELSE /\ sizePc' = "summed"
                /\ sizeTotal' = sum
    /\ UNCHANGED <<sizeRecords, sizePackages>>
    /\ UNCHANGED nonSizeVars

NextSize ==
    \/ NormalizeRecords
    \/ AccumulateSizes

(***************************************************************************)
(* __main__: main() under lock_execution, install_termination_handlers,    *)
(* and the except clauses around main().  SIGINT raises KeyboardInterrupt  *)
(* (Python's default handler), SIGTERM raises it through _handle_sigterm.  *)
(***************************************************************************)
Signals == {"SIGINT", "SIGTERM"}

IdleMain ==
    /\ mainPc = "idle"
    /\ mainLock = FALSE
    /\ mainSignal = "none"
    /\ mainExit = -1

\* main() holds the lock and enters context.process_content()
InitMain ==
    /\ InitProcess
    /\ mainPc = "processing"
    /\ mainLock = TRUE
    /\ mainSignal = "none"
    /\ mainExit = -1

\* a signal arrives while process_content runs: KeyboardInterrupt is raised
\* at the point the program is at; a transfer that was under way can leave
\* a partial file in the working directory
Signal ==
    /\ mainPc = "processing"
    /\ procPc \in {"start", "loop", "install"}
    /\ \E sig \in Signals : mainSignal' = sig
    /\ \E in_transfer \in BOOLEAN :
          IF in_transfer /\ procPc = "loop" /\ procIdx <= Len(sorted_merged) /\ ~dryRun
          THEN /\ files' = [files EXCEPT ![procIdx] = "partial"]
               /\ workdir' = "exists"
          ELSE UNCHANGED <<files, workdir>>
    /\ procPc' = "interrupted"
    /\ mainPc' = "unwinding"
    /\ UNCHANGED <<mainLock, mainExit>>
    /\ UNCHANGED <<dryRun, available, procIdx, logged, has_space, transfers, installs,
                   downloaded, deleted, procExit>>
    /\ UNCHANGED <<lockVars, gatherVars, mergeVars, serverVars, iterVars, verVars,
                   installedVars, sizeVars, warnVars, hrVars,
                   fallbackVars, remergeVars, cacheVars,
                   locatorVars>>

\* KeyboardInterrupt leaves main(): the finally of lock_execution releases
\* the lock, then the except clause logs and calls sys.exit(130)
Unwind ==
    /\ mainPc = "unwinding"
    /\ mainLock' = FALSE
    /\ mainExit' = 130
    /\ mainPc' = "exited"
    /\ UNCHANGED mainSignal
    /\ UNCHANGED nonMainVars

\* process_content returned or called sys.exit(2): the lock is released and
\* the process ends with that status
MainLeave ==
    /\ mainPc = "processing"
    /\ procPc \in {"done", "no_space", "cleanup_failed"}
    /\ mainLock' = FALSE
    /\ mainExit' = (IF procExit = -1 THEN 0 ELSE procExit)
    /\ mainPc' = "exited"
    /\ UNCHANGED mainSignal
    /\ UNCHANGED nonMainVars

NextMain ==
    \/ Preflight
    \/ LoopDryRun
    \/ LoopDownload
    \/ LoopInstall
    \/ Finish
    \/ Signal
    \/ Unwind
    \/ MainLeave

(***************************************************************************)
(* The legacy entry point (src/__main__.py) and ldilib:  the loop counting *)
(* the packages in error and the 'over half the packages' warning.         *)
(***************************************************************************)
\* generate_warning_message: float(errors) >= float(total * 0.5), which for
\* integers is 2 * errors >= total
generate_warning_message(errors, total) == 2 * errors >= total

IdleWarning ==
    /\ total_packages = 0
    /\ error_packages = 0
    /\ warnIdx = 0
    /\ warnPc = "idle"
    /\ warned = "none"

\* main() found packages and enough disk space: total_packages = len(packages)
InitWarning ==
    /\ total_packages \in 1..MaxWarnPackages
    /\ error_packages = 0
    /\ warnIdx = 1
    /\ warnPc = "loop"
    /\ warned = "none"

\* one iteration of the loop over the packages: a package whose status is
\* not ok is counted in error_packages
LoopPackage ==
    /\ warnPc = "loop"
    /\ warnIdx <= total_packages
    /\ \E status_ok \in BOOLEAN :
          error_packages' = IF status_ok THEN error_packages ELSE error_packages + 1
    /\ warnIdx' = warnIdx + 1
    /\ UNCHANGED <<total_packages, warnPc, warned>>
    /\ UNCHANGED nonWarnVars

\* after the loop: the warning is logged, or not
WarnCheck ==
    /\ warnPc = "loop"
    /\ warnIdx > total_packages
    /\ warned' = (IF generate_warning_message(error_packages, total_packages)
                  THEN "yes" ELSE "no")
    /\ warnPc' = "done"
    /\ UNCHANGED <<total_packages, error_packages, warnIdx>>
    /\ UNCHANGED nonWarnVars

NextWarning ==
    \/ LoopPackage
    \/ WarnCheck

(***************************************************************************)
(* normalizers.py: bytes2hr.  A byte count is mant * bs^exp, so that the   *)
(* float divisions by bs are exact: dividing lowers exp by one.            *)
(***************************************************************************)
\* the default block size
bs == 1024

suffixes == <<"B", "KB", "MB", "GB", "TB", "PB">>

RECURSIVE Pow(_, _)
Pow(b, n) == IF n = 0 THEN 1 ELSE b * Pow(b, n - 1)

\* v > bs for v = mant * bs^exp
GreaterThanBs(v) ==
    IF v.exp >= 1
    THEN v.mant >= 1 /\ (v.exp >= 2 \/ v.mant >= 2)
    ELSE v.mant > Pow(bs, 1 - v.exp)

\* f"{v:.2f}": the number of hundredths, rounded half to even
Format2f(v) ==
    IF v.mant = 0 THEN 0
    ELSE IF v.exp >= 0 THEN 100 * v.mant * Pow(bs, v.exp)
    ELSE LET d == Pow(bs, 0 - v.exp)
             q == (100 * v.mant) \div d
             r == (100 * v.mant) % d
         IN  IF 2 * r > d \/ (2 * r = d /\ q % 2 = 1) THEN q + 1 ELSE q

RECURSIVE Bytes2hrLoop(_, _)
\* the while loop and the return of bytes2hr; idx counts from 0
Bytes2hrLoop(v, idx) ==
    IF GreaterThanBs(v) /\ idx < Len(suffixes) - 1
    THEN Bytes2hrLoop([mant |-> v.mant, exp |-> v.exp - 1], idx + 1)
    ELSE [hundredths |-> Format2f(v), suffix |-> suffixes[idx + 1]]

bytes2hr(v) == Bytes2hrLoop(v, 0)

\* byte counts next to the first two powers of the block size
NearPowers == {bs - 1, bs, bs + 1, bs * bs - 1, bs * bs, bs * bs + 1}

HrInputs ==
    [mant : 0..MaxHrMant, exp : 0..MaxHrExp] \cup [mant : NearPowers, exp : {0}]

IdleHr ==
    /\ hrInput = [mant |-> 0, exp |-> 0]
    /\ hrPc = "idle"
    /\ hrResult = [hundredths |-> 0, suffix |-> "none"]

InitHr ==
    /\ hrInput \in HrInputs
    /\ hrPc = "start"
    /\ hrResult = [hundredths |-> 0, suffix |-> "none"]

\* Size.human: bytes2hr(self.raw)
Human ==
    /\ hrPc = "start"
    /\ hrResult' = bytes2hr(hrInput)
    /\ hrPc' = "done"
    /\ UNCHANGED hrInput
    /\ UNCHANGED nonHrVars

NextHr ==
    \/ Human

(***************************************************************************)
(* loopdown.py (the single-file script): fallback and readplist.           *)
(***************************************************************************)
\* names of the property list files of the applications
PlistNames == {"garageband", "logicpro", "mainstage"}

\* what status_code can return
StatusCodes == {200, 404, 500}

\* what curl writes to /tmp/<name>: nothing (the transfer failed), a property
\* list with packages, a property list without the Packages key, a file that
\* is no property list, or XML that is not well formed
RemoteContents == {"nothing", "packages", "no_packages", "not_plist", "malformed_xml"}

\* readplist(fp) on an existing file: the data, sys.exit(1) when the Packages
\* key is missing, plistlib.InvalidFileException, or the expat error of an
\* XML document that is not well formed
readplist(content) ==
    CASE content = "packages"      -> "data"
      [] content = "no_packages"   -> "SystemExit"
      [] content = "not_plist"     -> "InvalidFileException"
      [] content = "malformed_xml" -> "ExpatError"

IdleFallback ==
    /\ fbName = "none"
    /\ fbStatus = 0
    /\ fbRemote = "nothing"
    /\ fbTmp = "absent"
    /\ fbFetched = FALSE
    /\ fbPc = "idle"
    /\ fbData = "none"

\* fallback(fp) is called; /tmp/<name> can be there from an earlier run
InitFallback ==
    /\ fbName \in PlistNames
    /\ fbStatus \in StatusCodes
    /\ fbRemote \in RemoteContents
    /\ fbTmp \in {"absent", "packages"}
    /\ fbFetched = FALSE
    /\ fbPc = "start"
    /\ fbData = "none"

\* the whole of fallback(): status_code, download, readplist, unlink
Fallback ==
    /\ fbPc = "start"
    /\ IF fbStatus # 200
       THEN /\ fbPc' = "returned"
            /\ UNCHANGED <<fbTmp, fbFetched, fbData>>
       ELSE LET written == IF fbRemote = "nothing" THEN fbTmp ELSE fbRemote
                outcome == readplist(written)
            IN  /\ fbFetched' = (fbRemote # "nothing")
                /\ IF written = "absent"
                   THEN /\ fbPc' = "returned"
                        /\ UNCHANGED <<fbTmp, fbData>>
                   ELSE CASE outcome = "data" ->
                               /\ fbTmp' = "absent"
                               /\ fbData' = "data"
                               /\ fbPc' = "returned"
                          [] outcome = "InvalidFileException" ->
                               /\ fbTmp' = "absent"
                               /\ fbPc' = "returned"
                               /\ UNCHANGED fbData
                          [] outcome = "SystemExit" ->
                               /\ fbTmp' = written
                               /\ fbPc' = "exited"
                               /\ UNCHANGED fbData
                          [] outcome = "ExpatError" ->
                               /\ fbTmp' = written
                               /\ fbPc' = "raised"
                               /\ UNCHANGED fbData
    /\ UNCHANGED <<fbName, fbStatus, fbRemote>>
    /\ UNCHANGED nonFallbackVars

NextFallback ==
    \/ Fallback

(***************************************************************************)
(* _merge_packages_by_id called again on a dict with the packages the dict *)
(* already holds                                                           *)
(***************************************************************************)
IdleRemerge ==
    /\ remergePc = "idle"
    /\ remergeBefore = <<>>

InitRemerge ==
    /\ InitMerge
    /\ remergePc = "start"
    /\ remergeBefore = <<>>

\* self._merge_packages_by_id(merged, set(merged.values())): the set is
\* iterated in any order, the dict is changed in place
Remerge ==
    /\ remergePc = "start"
    /\ mergeTaken = 1..Len(mergeInput)
    /\ remergeBefore' = mergedDict
    /\ \E o \in Orderings(1..Len(mergedDict)) :
          mergedDict' = _merge_packages_by_id(mergedDict,
                                              [i \in 1..Len(o) |-> mergedDict[o[i]]])
    /\ mergeCalls' = mergeCalls + 1
    /\ remergePc' = "done"
    /\ UNCHANGED <<mergeInput, mergeTaken>>
    /\ UNCHANGED <<lockVars, gatherVars, procVars, serverVars, iterVars, verVars,
                   installedVars, sizeVars, mainVars, warnVars, hrVars, fallbackVars,
                   cacheVars,
                   locatorVars>>

NextRemerge ==
    \/ MergeGroup
    \/ Remerge

(***************************************************************************)
(* _generate_bucket_stats and the lru_cache of _generate_bucket_stats_cache *)
(***************************************************************************)
\* @lru_cache(maxsize=2)
CacheMaxSize == 2

\* AudioContentPackage.__eq__ and __hash__ (dataclass eq=True,
\* unsafe_hash=True): package_id is the only field with compare and hash set
PackageEq(a, b) == a.package_id = b.package_id

\* equality of the tuples that are the cache keys: element by element
TupleEq(s, t) ==
    /\ Len(s) = Len(t)
    /\ \A i \in 1..Len(s) : PackageEq(s[i], t[i])

\* the (req, opt) pair the body of _generate_bucket_stats_cache computes
BucketsOf(packages, want_req, want_opt) ==
    [req |-> _generate_bucket_stats(packages, want_req, FALSE,
                                    [count |-> 0, down |-> 0, inst |-> 0]),
     opt |-> _generate_bucket_stats(packages, FALSE, want_opt,
                                    [count |-> 0, down |-> 0, inst |-> 0])]

CacheArguments == UNION {[1..k -> MergePackages] : k \in 0..MaxCacheLen}

IdleCache ==
    /\ lruCache = <<>>
    /\ cacheArg = <<>>
    /\ cacheResult = [req |-> [count |-> 0, down |-> 0, inst |-> 0],
                      opt |-> [count |-> 0, down |-> 0, inst |-> 0]]
    /\ cacheCalls = 0

\* a context with its selection flags, no call made yet
InitCache ==
    /\ argsRequired \in BOOLEAN
    /\ argsOptional \in BOOLEAN
    /\ downloadMode = FALSE
    /\ apps = <<>>
    /\ futures = <<>>
    /\ merged_by_id = <<>>
    /\ gatherPc = "idle"
    /\ sorted_merged = <<>>
    /\ IdleCache

\* self._generate_bucket_stats(packages): the key tuple(packages) is looked
\* up; a hit returns the stored pair and makes the entry the most recent
\* one, a miss computes the pair, stores it and drops the least recent entry
\* when the cache is full
GenerateBucketStats ==
    /\ cacheCalls < MaxCacheCalls
    /\ \E packages \in CacheArguments :
          /\ cacheArg' = packages
          /\ LET hits == {i \in 1..Len(lruCache) : TupleEq(lruCache[i].key, packages)}
             IN  IF hits # {}
                 THEN LET h == CHOOSE i \in hits : TRUE
                          rest == SubSeq(lruCache, 1, h - 1) \o
                                  SubSeq(lruCache, h + 1, Len(lruCache))
                      IN  /\ cacheResult' = lruCache[h].value
                          /\ lruCache' = Append(rest, lruCache[h])
                 ELSE LET value == BucketsOf(packages, argsRequired, argsOptional)
                          kept == IF Len(lruCache) >= CacheMaxSize
                                  THEN Tail(lruCache) ELSE lruCache
                      IN  /\ cacheResult' = value
                          /\ lruCache' = Append(kept, [key |-> packages, value |-> value])
    /\ cacheCalls' = cacheCalls + 1
    /\ UNCHANGED <<lockVars, mergeVars, procVars, serverVars, iterVars, verVars,
                   installedVars, sizeVars, mainVars, warnVars, hrVars, fallbackVars,
                   remergeVars,
                   locatorVars>>
    /\ UNCHANGED gatherVars

NextCache ==
    \/ GenerateBucketStats

(***************************************************************************)
(* cache_utils.py: extract_cache_server and is_server_healthy              *)
(***************************************************************************)
\* CacheLocatorConsts.DEFAULT_PREFERRED_RANK
DEFAULT_PREFERRED_RANK == 0

DEFAULT_SERVER_SCHEME == "http://"

\* the entries of 'all servers': the 'favored' key can be missing; hostport
\* is given by the position of the entry in the list
ServerEntries ==
    [healthy : BOOLEAN, favored : {"true", "false", "absent"}, rank : 0..MaxRank]

\* what asset_cache_locator() returns: None, a document without the saved
\* servers of the source, or a document with them
LocatorData == {"none", "no_saved_servers", "servers"}

\* is_server_healthy with the default minimum_ranking
is_server_healthy(entry, ignore_favoured) ==
    LET favoured == IF ignore_favoured THEN "true" ELSE entry.favored
    IN  IF entry.healthy
        THEN IF favoured = "absent" THEN entry.rank >= DEFAULT_PREFERRED_RANK
             ELSE favoured = "true" /\ entry.rank >= DEFAULT_PREFERRED_RANK
        ELSE FALSE

RECURSIVE InsertByRank(_, _, _)
\* one step of the stable sort: i goes after the positions of rank not above its own
InsertByRank(order, i, entries) ==
    IF order = <<>> THEN <<i>>
    ELSE IF entries[i].rank < entries[Head(order)].rank THEN <<i>> \o order
    ELSE <<Head(order)>> \o InsertByRank(Tail(order), i, entries)

RECURSIVE SortedByRank(_, _, _)
\* sorted(all_servers, key=lambda s: s["rank"]), as the positions in the list
SortedByRank(order, i, entries) ==
    IF i > Len(entries) THEN order
    ELSE SortedByRank(InsertByRank(order, i, entries), i + 1, entries)

RECURSIVE FirstHealthy(_, _, _)
\* the for loop: the url of the first entry that is_server_healthy accepts
FirstHealthy(order, entries, ignore_favoured) ==
    IF order = <<>> THEN <<>>
    ELSE IF is_server_healthy(entries[Head(order)], ignore_favoured)
         THEN <<DEFAULT_SERVER_SCHEME, Head(order)>>
         ELSE FirstHealthy(Tail(order), entries, ignore_favoured)

\* extract_cache_server(); <<>> is None
extract_cache_server(data, entries, ignore_favoured) ==
    IF data # "servers" THEN <<>>
    ELSE FirstHealthy(SortedByRank(<<>>, 1, entries), entries, ignore_favoured)

IdleLocator ==
    /\ locData = "none"
    /\ all_servers = <<>>
    /\ ignoreFavoured = FALSE
    /\ locPc = "idle"
    /\ locResult = <<>>

InitLocator ==
    /\ locData \in LocatorData
    /\ all_servers \in UNION {[1..k -> ServerEntries] : k \in 0..MaxServers}
    /\ locData # "servers" => all_servers = <<>>
    /\ ignoreFavoured \in BOOLEAN
    /\ locPc = "start"
    /\ locResult = <<>>

ExtractCacheServer ==
    /\ locPc = "start"
    /\ locResult' = extract_cache_server(locData, all_servers, ignoreFavoured)
    /\ locPc' = "done"
    /\ UNCHANGED <<locData, all_servers, ignoreFavoured>>
    /\ UNCHANGED nonLocatorVars

NextLocator ==
    \/ ExtractCacheServer

(***************************************************************************)
(* Specifications                                                          *)
(***************************************************************************)
IdleLock == InitLock

LockInit == InitLock /\ IdleGather /\ IdleMerge /\ IdleProcess /\ IdleServer /\ IdleIter /\ IdleVersion /\ IdleInstalled /\ IdleSize /\ IdleMain /\ IdleWarning /\ IdleHr /\ IdleFallback /\ IdleRemerge /\ IdleCache /\ IdleLocator

SpecLock == LockInit /\ [][NextLock]_vars

\* an instance that has entered lock_execution goes on: its system calls
\* return and the body of main() ends; whether an instance is ever started
\* is left open
InstanceStep(p) ==
    Touch(p) \/ Open(p) \/ Flock(p) \/ LeaveBody(p) \/ Unlock(p) \/ Close(p) \/ Unlink(p)

SpecLockFair ==
    LockInit /\ [][NextLock]_vars /\ \A p \in Instances : WF_vars(InstanceStep(p))

GatherInit == InitGather /\ IdleLock /\ IdleMerge /\ IdleProcess /\ IdleServer /\ IdleIter /\ IdleVersion /\ IdleInstalled /\ IdleSize /\ IdleMain /\ IdleWarning /\ IdleHr /\ IdleFallback /\ IdleRemerge /\ IdleCache /\ IdleLocator

SpecGather == GatherInit /\ [][NextGather]_vars

MergeInit == InitMerge /\ IdleLock /\ IdleGather /\ IdleProcess /\ IdleServer /\ IdleIter /\ IdleVersion /\ IdleInstalled /\ IdleSize /\ IdleMain /\ IdleWarning /\ IdleHr /\ IdleFallback /\ IdleRemerge /\ IdleCache /\ IdleLocator

SpecMerge == MergeInit /\ [][NextMerge]_vars

ProcessInit == InitProcess /\ IdleLock /\ IdleMerge /\ IdleServer /\ IdleIter /\ IdleVersion /\ IdleInstalled /\ IdleSize /\ IdleMain /\ IdleWarning /\ IdleHr /\ IdleFallback /\ IdleRemerge /\ IdleCache /\ IdleLocator

SpecProcess == ProcessInit /\ [][NextProcess]_vars

\* process_content is sequential code and every call it makes returns (curl
\* runs with bounded retries and timeouts): a step that can be taken is taken
SpecProcessFair == ProcessInit /\ [][NextProcess]_vars /\ WF_vars(NextProcess)

ServerInit == InitServer /\ IdleLock /\ IdleMerge /\ IdleProcess /\ IdleIter /\ IdleVersion /\ IdleInstalled /\ IdleSize /\ IdleMain /\ IdleWarning /\ IdleHr /\ IdleFallback /\ IdleRemerge /\ IdleCache /\ IdleLocator

SpecServer == ServerInit /\ [][NextServer]_vars

IterInit == InitIter /\ IdleLock /\ IdleMerge /\ IdleProcess /\ IdleServer /\ IdleVersion /\ IdleInstalled /\ IdleSize /\ IdleMain /\ IdleWarning /\ IdleHr /\ IdleFallback /\ IdleRemerge /\ IdleCache /\ IdleLocator

SpecIter == IterInit /\ [][NextIter]_vars

VersionInit == InitVersion /\ IdleLock /\ IdleGather /\ IdleMerge /\ IdleProcess /\ IdleServer /\ IdleIter /\ IdleInstalled /\ IdleSize /\ IdleMain /\ IdleWarning /\ IdleHr /\ IdleFallback /\ IdleRemerge /\ IdleCache /\ IdleLocator

SpecVersion == VersionInit /\ [][NextVersion]_vars

InstalledInit == InitInstalled /\ IdleLock /\ IdleGather /\ IdleMerge /\ IdleProcess /\ IdleServer /\ IdleIter /\ IdleVersion /\ IdleSize /\ IdleMain /\ IdleWarning /\ IdleHr /\ IdleFallback /\ IdleRemerge /\ IdleCache /\ IdleLocator

SpecInstalled == InstalledInit /\ [][NextInstalled]_vars

SizeInit == InitSize /\ IdleLock /\ IdleMerge /\ IdleProcess /\ IdleServer /\ IdleIter /\ IdleVersion /\ IdleInstalled /\ IdleMain /\ IdleWarning /\ IdleHr /\ IdleFallback /\ IdleRemerge /\ IdleCache /\ IdleLocator

SpecSize == SizeInit /\ [][NextSize]_vars

MainInit == InitMain /\ IdleLock /\ IdleMerge /\ IdleServer /\ IdleIter /\ IdleVersion /\ IdleInstalled /\ IdleSize /\ IdleWarning /\ IdleHr /\ IdleFallback /\ IdleRemerge /\ IdleCache /\ IdleLocator

SpecMain == MainInit /\ [][NextMain]_vars

WarningInit == InitWarning /\ IdleLock /\ IdleGather /\ IdleMerge /\ IdleProcess /\ IdleServer /\ IdleIter /\ IdleVersion /\ IdleInstalled /\ IdleSize /\ IdleMain /\ IdleHr /\ IdleFallback /\ IdleRemerge /\ IdleCache /\ IdleLocator

SpecWarning == WarningInit /\ [][NextWarning]_vars

HrInit == InitHr /\ IdleLock /\ IdleGather /\ IdleMerge /\ IdleProcess /\ IdleServer /\ IdleIter /\ IdleVersion /\ IdleInstalled /\ IdleSize /\ IdleMain /\ IdleWarning /\ IdleFallback /\ IdleRemerge /\ IdleCache /\ IdleLocator

SpecHr == HrInit /\ [][NextHr]_vars

FallbackInit == InitFallback /\ IdleLock /\ IdleGather /\ IdleMerge /\ IdleProcess /\ IdleServer /\ IdleIter /\ IdleVersion /\ IdleInstalled /\ IdleSize /\ IdleMain /\ IdleWarning /\ IdleHr /\ IdleRemerge /\ IdleCache /\ IdleLocator

SpecFallback == FallbackInit /\ [][NextFallback]_vars

RemergeInit == InitRemerge /\ IdleLock /\ IdleGather /\ IdleProcess /\ IdleServer /\ IdleIter /\ IdleVersion /\ IdleInstalled /\ IdleSize /\ IdleMain /\ IdleWarning /\ IdleHr /\ IdleFallback /\ IdleCache /\ IdleLocator

SpecRemerge == RemergeInit /\ [][NextRemerge]_vars

CacheInit == InitCache /\ IdleLock /\ IdleMerge /\ IdleProcess /\ IdleServer /\ IdleIter /\ IdleVersion /\ IdleInstalled /\ IdleSize /\ IdleMain /\ IdleWarning /\ IdleHr /\ IdleFallback /\ IdleRemerge /\ IdleLocator

SpecCache == CacheInit /\ [][NextCache]_vars

LocatorInit == InitLocator /\ IdleLock /\ IdleGather /\ IdleMerge /\ IdleProcess /\ IdleServer /\ IdleIter /\ IdleVersion /\ IdleInstalled /\ IdleSize /\ IdleMain /\ IdleWarning /\ IdleHr /\ IdleFallback /\ IdleRemerge /\ IdleCache

SpecLocator == LocatorInit /\ [][NextLocator]_vars

(***************************************************************************)
(* Claims                                                                  *)
(***************************************************************************)
InBody == {p \in Instances : instPc[p] = "body"}

\* C1: at most one instance executes the body of lock_execution at any time
\* (so an instance that reaches flock while another one is in the body is
\* refused with AlreadyRunningError instead of entering the body).
C1_MutualExclusion == Cardinality(InBody) <= 1

\* the raw records of all applications that pass the selection filter
\* (positions <<application, index>>), for one package id
SelectedPositions(id) ==
    {pos \in Apps \X (1..MaxRecs) :
        /\ apps[pos[1]].source = "ok"
        /\ pos[2] <= Len(apps[pos[1]].records)
        /\ apps[pos[1]].records[pos[2]].package_id = id
        /\ _add_pkg_for_processing(apps[pos[1]].records[pos[2]], argsRequired, argsOptional)}

RecordAt(pos) == apps[pos[1]].records[pos[2]]

MandatoryPositions(id) == {pos \in SelectedPositions(id) : RecordAt(pos).mandatory}

OptionalPositions(id) == {pos \in SelectedPositions(id) : ~RecordAt(pos).mandatory}

EntriesOf(list, id) == {i \in 1..Len(list) : list[i].package_id = id}

\* C2: when the selected records of a package id are one mandatory record and
\* optional records, in one application or across applications and in any
\* order, the returned list holds exactly one entry for the id and it is the
\* mandatory record with its own fields.
C2_MandatoryWins ==
    gatherPc = "returned" =>
        \A id \in PackageIds :
            (Cardinality(MandatoryPositions(id)) = 1 /\ OptionalPositions(id) # {}) =>
                /\ Cardinality(EntriesOf(sorted_merged, id)) = 1
                /\ \A i \in EntriesOf(sorted_merged, id) :
                       \A pos \in MandatoryPositions(id) : sorted_merged[i] = RecordAt(pos)

\* the scenario of the specification: X optional with size 50 in the first
\* application, X mandatory with size 100 in the second, the optional one
\* merged first
C2_Witness ==
    /\ gatherPc = "returned"
    /\ Len(apps[1].records) = 1 /\ Len(apps[2].records) = 1
    /\ apps[1].records[1].package_id = 1 /\ apps[2].records[1].package_id = 1
    /\ ~apps[1].records[1].mandatory /\ apps[1].records[1].download_size = 50
    /\ apps[2].records[1].mandatory /\ apps[2].records[1].download_size = 100
    /\ Len(merged_by_id) = 1
    /\ sorted_merged = <<apps[2].records[1]>>

MergedAll == mergeTaken = 1..Len(mergeInput)

\* the unpartitioned collection merged in one call
MergedWhole == _merge_packages_by_id(<<>>, mergeInput)

\* C3: once every group of a partition was merged, in any group order, the
\* dict holds the same package ids, each with the same mandatory flag, as the
\* merge of the whole collection in one call.
C3_PartitionIndependent ==
    MergedAll =>
        /\ DictIds(mergedDict) = DictIds(MergedWhole)
        /\ \A id \in DictIds(mergedDict) :
               DictGet(mergedDict, id).mandatory = DictGet(MergedWhole, id).mandatory

\* three packages merged in more than one call, an id seen both as mandatory
\* and as optional, and a dict that differs from the one-call merge in a field
\* the claim does not mention
C3_Witness ==
    /\ MergedAll
    /\ Len(mergeInput) = 3
    /\ mergeCalls >= 2
    /\ \E i, j \in 1..3 :
          /\ mergeInput[i].package_id = mergeInput[j].package_id
          /\ mergeInput[i].mandatory /\ ~mergeInput[j].mandatory
    /\ mergedDict # MergedWhole

\* the merge of the applications' results in submission order
RECURSIVE MergeInOrder(_, _)
MergeInOrder(merged, a) ==
    IF a > NumApps
        THEN merged
        ELSE MergeInOrder(
                 _merge_packages_by_id(
                     merged,
                     _iter_app_packages(apps[a], argsRequired, argsOptional, downloadMode).pkgs),
                 a + 1)

\* C4: whatever the order in which the futures complete, the returned list is
\* the same sequence (the one obtained when they complete in submission order).
C4_CompletionOrderIndependent ==
    gatherPc = "returned" => sorted_merged = Sorted(<<>>, MergeInOrder(<<>>, 1))

\* C5: when reading or parsing the metadata source of an application fails,
\* the gather raises and returns no list: it returns a list only if no
\* application's metadata source failed to be read or parsed.
C5_AnyFailureAborts ==
    gatherPc = "returned" => \A a \in Apps : apps[a].source \notin {"unreadable", "malformed"}

\* the download and installed sizes of every package of the list
RECURSIVE ListTotal(_)
ListTotal(list) ==
    IF list = <<>> THEN 0
    ELSE Head(list).download_size + Head(list).installed_size + ListTotal(Tail(list))

Occurrences(seq, x) == Cardinality({k \in 1..Len(seq) : seq[k] = x})

\* C6: in a run that is not a dry run, when the free space does not exceed
\* what the resolved packages need, process_content has exited with status 2
\* once the space check ran, and no transfer and no installer invocation was
\* started; in a dry run with the same numbers the comparison is reported as
\* failed, the run never exits, and it ends having gone through every package.
C6_SpacePreflight ==
    (procPc # "start" /\ sorted_merged # <<>> /\ available <= ListTotal(sorted_merged)) =>
        IF dryRun
        THEN /\ has_space = "no"
             /\ procExit = -1
             /\ procPc \in {"loop", "done"}
             /\ procPc = "done" => logged = Len(sorted_merged)
        ELSE /\ procPc = "no_space"
             /\ procExit = 2
             /\ transfers = <<>>
             /\ installs = <<>>

\* the run that is not a dry run has left at the space check
C6_Witness ==
    /\ ~dryRun
    /\ procPc = "no_space"
    /\ available <= ListTotal(sorted_merged)
    /\ Len(sorted_merged) = MaxId

C8_DryRunHasNoEffect ==
    dryRun =>
        /\ transfers = <<>>
        /\ installs = <<>>
        /\ deleted = {}
        /\ \A i \in 1..Len(sorted_merged) : files[i] = "absent" /\ downloaded[i] = "none"
        /\ workdir # "removed"
        /\ procExit = -1
        /\ procPc \in {"start", "loop", "done"}

\* a dry run over packages that need more than the free space has ended, the
\* working directory exists
C8_Witness ==
    /\ dryRun
    /\ ~downloadMode
    /\ procPc = "done"
    /\ has_space = "no"
    /\ logged = MaxId
    /\ workdir = "exists"

\* C9: in deploy mode _resolve_server returns the mirror URL when one was
\* supplied; otherwise the explicit caching-proxy URL when one was supplied
\* and it is not 'auto'; otherwise, when the caching-proxy argument is
\* 'auto', the discovered proxy URL, or the origin URL if discovery finds
\* none; otherwise the origin URL.  The resolved server is never 'auto'.
C9_ResolvePriority ==
    (serverPc = "resolved" /\ ~downloadMode) =>
        /\ server # Auto
        /\ IF argsMirror # None THEN server = argsMirror
           ELSE IF argsCache \notin {None, Auto} THEN server = argsCache
           ELSE IF argsCache = Auto
                THEN IF discovery = None
                     THEN server = CONTENT_SOURCE
                     ELSE server \in {discovery, normalize_caching_server_url(discovery)}
           ELSE server = CONTENT_SOURCE

\* the resolved server is neither the mirror, nor the origin, nor 'auto'
CachingProxyActive ==
    /\ serverPc = "resolved"
    /\ ~downloadMode
    /\ argsMirror = None
    /\ server \notin {CONTENT_SOURCE, Auto}

\* C10: when a caching proxy is the active server, the url generated for a
\* package has the scheme http, the host:port of the proxy, a path that is
\* the download path of the package, and the query
\* source=<origin host>&sourceScheme=https.
C10_CachingProxyUrl ==
    (CachingProxyActive /\ url # None) =>
        LET parsed == urlparse(url)
        IN  /\ parsed.scheme = <<"http:">>
            /\ \E n \in WithPort : parsed.netloc = <<n>>
            /\ parsed.path = <<"/">> \o urlPath
            /\ parsed.query = <<"source=">> \o urlparse(CONTENT_SOURCE).netloc
                                  \o <<"&sourceScheme=https">>

\* the raw records of the application that pass the selection filter
IterSelected == {i \in 1..Len(iterRecords) :
                    _add_pkg_for_processing(iterRecords[i], argsRequired, argsOptional)}

\* the rule an installed package is skipped by: installed, deploy, no force
SkippedAsInstalled(r) == r.is_installed /\ ~downloadMode /\ ~argsForce

\* C11: _iter_app_packages returns a result, and a selected package is left
\* out of it exactly when it is installed, the action is deploy and force was
\* not given: the ids of the result are the ids of the selected records that
\* are not installed, or are processed with -f/--force or in download mode.
C11_SkipInstalledUnlessForced ==
    iterPc = "done" =>
        /\ ~iterResult.raised
        /\ DictIds(iterResult.pkgs) =
              {iterRecords[i].package_id :
                  i \in {j \in IterSelected : ~SkippedAsInstalled(iterRecords[j])}}

\* the records of the application whose package id no other record has
IterUniqueId == {i \in 1..Len(iterRecords) :
                    \A j \in 1..Len(iterRecords) :
                        iterRecords[j].package_id = iterRecords[i].package_id => j = i}

\* C12: in any input order and under any selection flags, a record (of an id
\* no other record has) that is not skipped as installed is in the result of
\* _iter_app_packages iff it is mandatory and -r was given, or it is optional
\* and -o was given.
C12_SelectionFilter ==
    iterPc = "done" =>
        \A i \in IterUniqueId :
            ~SkippedAsInstalled(iterRecords[i]) =>
                ((\E k \in 1..Len(iterResult.pkgs) : iterResult.pkgs[k] = iterRecords[i])
                    <=> \/ iterRecords[i].mandatory /\ argsRequired
                        \/ ~iterRecords[i].mandatory /\ argsOptional)

\* the installed tuple zero-padded to the length of the required one
PaddedInstalled ==
    PadZeros(verInstalled, Len(verRequired) - Len(verInstalled))

\* C13 as claimed: the result is true exactly when every component of the
\* zero-padded installed tuple is >= the component of the required tuple at
\* the same position, over the length of the required tuple.
C13_ComponentwiseFloor ==
    verPc = "done" =>
        (verResult <=> \A k \in 1..Len(verRequired) : PaddedInstalled[k] >= verRequired[k])

\* C13 as amended: the result is true exactly when the installed tuple, cut or
\* zero-padded to the length of the required tuple, is not below it in
\* lexicographic order: the two agree over the whole length, or at the first
\* position where they differ the installed component is the greater one.
C13_LexicographicFloor ==
    verPc = "done" =>
        (verResult <=>
            \/ \A k \in 1..Len(verRequired) : PaddedInstalled[k] = verRequired[k]
            \/ \E k \in 1..Len(verRequired) :
                  /\ PaddedInstalled[k] > verRequired[k]
                  /\ \A j \in 1..(k - 1) : PaddedInstalled[j] = verRequired[j])

\* installed 2.0 satisfies required 1.1 although its second component is
\* smaller
C13_Witness ==
    /\ verPc = "done"
    /\ verInstalled = <<2, 0>>
    /\ verRequired = <<1, 1>>
    /\ verResult

\* C14: for a package with no declared version (that lists sentinel files),
\* is_installed is true iff every sentinel file it lists exists; with a
\* listed file missing the package is reported as not installed.
C14_AllSentinelFiles ==
    (installedPc = "done" /\ ~pkgVersion.declared /\ file_check # <<>>) =>
        (installedResult <=> \A i \in 1..Len(file_check) : file_check[i] \in hostFiles)

\* a zero-byte quantity
ZeroSize == [none |-> FALSE, raw |-> 0]

\* C15: for every raw record whose DownloadSize or InstalledSize is absent or
\* null, the package made from it has the zero-byte quantity for that size,
\* and the accumulation into the bucket statistics and the required space
\* never ends in an error.
C15_MissingSizesAreZero ==
    /\ sizePc # "type_error"
    /\ sizePc \in {"normalized", "summed"} =>
          \A i \in 1..Len(sizeRecords) :
              /\ sizeRecords[i].DownloadSize.none => sizePackages[i].download_size = ZeroSize
              /\ sizeRecords[i].InstalledSize.none => sizePackages[i].installed_size = ZeroSize

\* the download sizes of every package of the list
RECURSIVE DownloadTotal(_)
DownloadTotal(list) ==
    IF list = <<>> THEN 0 ELSE Head(list).download_size + DownloadTotal(Tail(list))

\* the space the action needs: download sizes in download mode, download and
\* installed sizes when the action installs
RequiredByAction == IF downloadMode THEN DownloadTotal(sorted_merged) ELSE ListTotal(sorted_merged)

\* C16: once the space check ran, the required space it computed is the sum
\* of the download sizes of the whole resolved list in download mode, and the
\* sum of the download and installed sizes when the action installs; the
\* comparison it reported is the free space against that figure.
C16_RequiredSpaceByAction ==
    (procPc # "start" /\ sorted_merged # <<>>) =>
        /\ tot_reqd_space(sorted_merged, argsRequired, argsOptional) = RequiredByAction
        /\ has_space = (IF available > RequiredByAction THEN "yes" ELSE "no")

\* C17: when the action installs, every package whose download was verified
\* and whose installer invocation has returned, with success or with
\* failure, has had its local file deleted by the loop.
C17_ArtifactDeletedAfterInstall ==
    ~downloadMode =>
        \A i \in 1..Len(sorted_merged) :
            (downloaded[i] = "yes" /\ Occurrences(installs, i) = 1) =>
                /\ i \in deleted
                /\ files[i] = "absent"

\* C18: when SIGINT or SIGTERM arrived while process_content was running and
\* the process has exited, the working directory does not exist any more,
\* the instance lock is released, and the exit status is 130.
C18_InterruptCleansUp ==
    (mainPc = "exited" /\ mainSignal \in Signals) =>
        /\ workdir # "exists"
        /\ ~mainLock
        /\ mainExit = 130

\* the loop of process_content is running or has ended
LoopEntered == procPc \in {"loop", "install", "done", "cleanup_failed"}

\* the transfers made so far are those of the first packages of the list,
\* one each, in list order, and each has its outcome recorded
TransfersInOrder ==
    /\ \A k \in 1..Len(transfers) : transfers[k] = k
    /\ Len(transfers) = (IF procPc = "install" THEN procIdx ELSE procIdx - 1)
    /\ \A i \in 1..Len(sorted_merged) :
          /\ i <= Len(transfers) <=> downloaded[i] \in {"yes", "no"}
          /\ (procPc \in {"loop", "install"} /\ downloaded[i] = "no") => files[i] # "complete"
          /\ (procPc \in {"loop", "install"} /\ downloaded[i] = "yes") =>
                (files[i] = "complete" \/ i \in deleted)
    /\ procPc \in {"done", "cleanup_failed"} => Len(transfers) = Len(sorted_merged)

C20_WarnOnlyOverHalf ==
    warnPc = "done" => (warned = "yes" <=> 2 * error_packages > total_packages)

\* the byte count is exactly bs^j
IsPowerOfBs(v, j) ==
    \/ v.mant = 1 /\ v.exp = j
    \/ v.exp = 0 /\ v.mant = Pow(bs, j)

\* C21: bytes2hr renders 0 bytes as "0.00B", and a byte count that is
\* exactly the j-th power of 1024 (1024 is "1.00KB", 1048576 is "1.00MB") as
\* 1.00 in the unit of that power; the unit is always one of B .. PB.
C21_PowersInTheirUnit ==
    hrPc = "done" =>
        /\ \E k \in 1..Len(suffixes) : hrResult.suffix = suffixes[k]
        /\ hrInput.mant = 0 => hrResult = [hundredths |-> 0, suffix |-> "B"]
        /\ \A j \in 1..2 :
              IsPowerOfBs(hrInput, j) =>
                  hrResult = [hundredths |-> 100, suffix |-> suffixes[j + 1]]

\* C22: whenever fallback fetched the remote property list into its
\* temporary file and is finished, by a return, an exit or an exception, the
\* temporary file does not exist any more, whether the content parsed, was
\* not a valid property list, or lacked the Packages key.
C22_TemporaryFileRemoved ==
    (fbPc \in {"returned", "exited", "raised"} /\ fbFetched) => fbTmp = "absent"

\* C23: merging into a dict the packages the dict already holds leaves the
\* dict as it was: the same ids in the same entries, the same package for
\* each id, no entry added and no size changed.
C23_MergeIdempotent ==
    remergePc = "done" =>
        /\ mergedDict = remergeBefore
        /\ Len(mergedDict) = Cardinality(DictIds(remergeBefore))

\* a dict of two packages, one of which was seen as mandatory and as
\* optional, was merged with its own packages
C23_Witness ==
    /\ remergePc = "done"
    /\ Len(remergeBefore) = 2
    /\ Len(mergeInput) = 3
    /\ \E i, j \in 1..3 :
          /\ mergeInput[i].package_id = mergeInput[j].package_id
          /\ mergeInput[i].mandatory /\ ~mergeInput[j].mandatory

\* C24: once an instance that was refused the lock has raised
\* AlreadyRunningError and left lock_execution, the lock file still exists
\* and is still the file locked by the instance that is running the body.
C24_RefusedInstanceChangesNothing ==
    \A p, q \in Instances :
        (instPc[p] = "exited" /\ instRaised[p] /\ instPc[q] = "body") =>
            /\ lockPath # 0
            /\ lockPath = instF[q]

\* every other instance has left lock_execution and exited
OthersExited(q) == \A r \in Instances \ {q} : instPc[r] = "exited"

\* C25: whichever way an instance leaves the body (status 0, sys.exit(2), or
\* KeyboardInterrupt with status 130), it holds no lock once the finally block
\* has closed the file; and an instance that enters lock_execution when
\* every other instance has exited always acquires the lock and runs the body.
C25_LockReleasedOnEveryExit ==
    /\ [](\A p \in Instances : instPc[p] \in {"unlink", "exited"} =>
                                  (~instLocked[p] /\ instF[p] = 0))
    /\ \A q \in Instances :
          (instPc[q] = "touch" /\ OthersExited(q)) ~> (instPc[q] = "body")

\* an instance runs the body after the holder before it was interrupted and
\* every other instance has exited
C25_Witness ==
    \E p, q \in Instances :
        /\ instPc[q] = "body"
        /\ instLocked[q]
        /\ OthersExited(q)
        /\ instExit[p] = 130

\* C26: every call of _generate_bucket_stats returns the buckets computed
\* afresh from the packages of its argument (their mandatory flags, download
\* sizes and installed sizes), whatever calls were made before it.
C26_CacheReturnsFreshBuckets ==
    cacheCalls > 0 => cacheResult = BucketsOf(cacheArg, argsRequired, argsOptional)

\* the entry is healthy and favored, or healthy with favored overridden
Qualifies(entry) ==
    entry.healthy /\ (ignoreFavoured \/ entry.favored = "true")

\* C27: extract_cache_server returns the address of a saved server only if
\* that entry has healthy = true and favored = true (unless favored is
\* overridden), and the entry has the lowest rank among such entries; when no
\* entry qualifies it returns no server.
C27_HealthyFavoredLowestRank ==
    locPc = "done" =>
        IF locResult = <<>>
        THEN TRUE
        ELSE /\ Qualifies(all_servers[locResult[2]])
             /\ \A i \in 1..Len(all_servers) :
                   Qualifies(all_servers[i]) =>
                       all_servers[locResult[2]].rank <= all_servers[i].rank

\* C28: whatever the applications, their raw records and the order in which
\* the workers complete, the list _gather_packages_concurrently returns holds
\* no two packages with the same package_id.
C28_UniquePackageIds ==
    gatherPc = "returned" =>
        \A i, j \in 1..Len(sorted_merged) :
            sorted_merged[i].package_id = sorted_merged[j].package_id => i = j

\* both applications list the same package id with other fields differing,
\* both passed the selection, and the list returned holds one package
C28_Witness ==
    /\ gatherPc = "returned"
    /\ \A a \in Apps : Len(apps[a].records) = 1 /\ futures[a].pkgs # <<>>
    /\ apps[1].records[1].package_id = apps[2].records[1].package_id
    /\ apps[1].records[1] # apps[2].records[1]
    /\ Len(sorted_merged) = 1

\* the installed sizes of every package of the list
RECURSIVE InstalledTotal(_)
InstalledTotal(list) ==
    IF list = <<>> THEN 0 ELSE Head(list).installed_size + InstalledTotal(Tail(list))

\* C29: for the resolved list produced under the selection flags, the bucket
\* statistics computed with the same flags by the space check count every
\* package exactly once: required.count + optional.count is the length of
\* the list, and the download and installed bytes of the two buckets add up
\* to the sums over the list.
C29_BucketsCoverTheList ==
    (procPc # "start" /\ sorted_merged # <<>>) =>
        LET b == BucketsOf(sorted_merged, argsRequired, argsOptional)
        IN  /\ b.req.count + b.opt.count = Len(sorted_merged)
            /\ b.req.down + b.opt.down = DownloadTotal(sorted_merged)
            /\ b.req.inst + b.opt.inst = InstalledTotal(sorted_merged)
            /\ b.req.count = Cardinality({i \in 1..Len(sorted_merged) : sorted_merged[i].mandatory})

\* the space check ran on a list with a mandatory and an optional package
C29_Witness ==
    /\ procPc = "loop"
    /\ argsRequired /\ argsOptional
    /\ Len(sorted_merged) = 2
    /\ sorted_merged[1].mandatory
    /\ ~sorted_merged[2].mandatory
    /\ sorted_merged[1].download_size # sorted_merged[2].download_size

\* C30: a package with a declared version, none of whose sentinel files
\* exists on the host, is never reported as installed, whatever the declared
\* version is (a version whose release components are all zero included).
C30_NoSentinelNotInstalled ==
    (/\ installedPc = "done"
     /\ pkgVersion.declared
     /\ file_check # <<>>
     /\ \A i \in 1..Len(file_check) : file_check[i] \notin hostFiles) => ~installedResult

====
